---- MODULE Spec2Model ----
(***************************************************************************)
(* TrojanX (SSPanel flavour): the user store, the control-plane client     *)
(* loop and the per-connection session of src/src/sspanel, as a state      *)
(* machine.                                                                *)
(*                                                                         *)
(* Spec      the store, Client::run and the sessions that verify against   *)
(*           the store and meter traffic into it.                          *)
(* SpecConn  one connection of ServerSession::run in detail (first parse,  *)
(*           fallback, early data), against a store left by one fetch.     *)
(***************************************************************************)
EXTENDS Integers, Sequences, FiniteSets, TLC

\* ------------------------------------------------------------------ bounds

\* Password fingerprints (proto::Password values) the panel may hand out.
FPs == {"fpA", "fpB"}

\* User ids of the panel.
Ids == {1, 2}

\* Source IP addresses of incoming connections.
IPs == {"ipA", "ipB"}

\* Connection slots (tasks spawned by Server::run that are alive at once).
Conns == {"c1", "c2"}

\* The connection slot of the specification of the traffic counters.
OneConn == {"c1"}

\* The user the panel holds under Spec and SpecIp.
OneUser == {1}

\* Cap on a traffic counter: sessions stop relaying once a counter holds this.
MaxBytes == 2

\* ------------------------------------------------------- values and records

\* Option<usize>: None is <<>>, Some(n) is <<n>>.
NoneV == <<>>
Some(n) == <<n>>

\* f64::INFINITY of UserRaw::speed_limit, as a value no finite rate takes.
INFINITY == -1

\* (node_speedlimit, node_connector, alive_ip) columns the panel sends, for the
\* specification of the traffic counters: no rate limit, no IP cap.
FreeRows == {<<0, 0, 0>>}

\* The same for the specification of the IP sets:
\*   <<0,0,0>>  no IP cap
\*   <<0,1,0>>  cap 1 - 0 = 1
\*   <<0,1,2>>  ip_limit < ip_online: cap 0
CapRows == {<<0, 0, 0>>, <<0, 1, 0>>, <<0, 1, 2>>}

\* UserRaw records the panel may return for user id.
RawUsers(id, rows) ==
  {[id |-> id, pwd |-> p, speed_limit |-> r[1], ip_limit |-> r[2], ip_online |-> r[3]] :
     p \in FPs, r \in rows}

\* Absent entry of a HashMap<usize, UserRaw>.
NoUser == [id |-> 0, pwd |-> "", speed_limit |-> 0, ip_limit |-> 0, ip_online |-> 0]

\* All HashMap<usize, UserRaw> values a fetch can produce.
FetchSets(ids, rows) ==
  {f \in [Ids -> UNION {RawUsers(i, rows) : i \in ids} \cup {NoUser}] :
     \A i \in Ids : f[i] = NoUser \/ f[i].id = i}

\* UserRaw::ip_limit
ip_limit(u) ==
  IF u.ip_limit = 0 THEN NoneV
  ELSE IF u.ip_limit < u.ip_online THEN Some(0)
  ELSE Some(u.ip_limit - u.ip_online)

\* UserRaw::speed_limit
speed_limit(u) ==
  IF u.speed_limit = 0 THEN INFINITY ELSE u.speed_limit * 1024 * 1024

\* Limiter::new
LimiterNew(speed) == [is_unlimited |-> (speed = INFINITY), speed_limit |-> speed]

\* Limiter::set_speed_limit
set_speed_limit(l, speed) ==
  IF speed = INFINITY
    THEN [l EXCEPT !.is_unlimited = TRUE]
    ELSE [is_unlimited |-> FALSE, speed_limit |-> speed]

\* The value of users at a fingerprint that is no key of the map.
NoCtx == [id |-> 0, rx |-> 0, tx |-> 0, limiter |-> LimiterNew(INFINITY),
          ips |-> <<{}, NoneV>>]

\* UserRaw::as_server_user: the UserContext built from a record.
as_server_user(u) ==
  [id |-> u.id, rx |-> 0, tx |-> 0, limiter |-> LimiterNew(speed_limit(u)),
   ips |-> <<{}, ip_limit(u)>>]

\* Mutant of update_ctx: the context is built anew from the record.
update_ctx_Fresh(u, ctx) ==
  [id |-> u.id, rx |-> 0, tx |-> 0, limiter |-> LimiterNew(speed_limit(u)),
   ips |-> <<{}, ip_limit(u)>>]

\* UserRaw::update_ctx
update_ctx(u, ctx) ==
  [ctx EXCEPT !.limiter = set_speed_limit(ctx.limiter, speed_limit(u)),
              !.ips = <<ctx.ips[1], ip_limit(u)>>]

\* ---------------------------------------------------------------- state

\* An Arc<UserContext> is named by the key it is stored under: fetch_users only
\* ever inserts a context it has just allocated, so a context has one key for as
\* long as it is in the map. A context that left the map (removed, or replaced by
\* an insert under its key) is reachable from sessions only; no operation of the
\* store reads it again, and its fields are not kept.
VARIABLES
  users,     \* ServerContext.users: fingerprint -> UserContext, NoCtx = no key
  running,   \* Client.running
  cpc,       \* position of Client::run
  data,      \* the Vec<UpdateData> of the update_traffic in progress
  cidx,      \* index of the entry collect_update / assume_update is at
  ltx,       \* the tx value collect_update has loaded for the entry it is at
  conns,     \* the connections: position, source address, Arc<UserContext> held
  admitted,  \* history: per key, the addresses verify admitted since the last drain
  sess,      \* the connection of SpecConn
  meter,     \* the metered stream of SpecMeter: StreamWrapper and its UserSessionContext
  lim,       \* the limiter of SpecLimiter
  udp,       \* the UDP relay of SpecUdp
  logged,    \* the steps whose error Client::run has logged in this iteration
  rw,        \* the RwLock of ServerContext.users and the fetch_users holding it, of SpecLock
  codec      \* the value a wire codec is applied to and what it returned, of SpecCodec

vars ==
  <<users, running, cpc, data, cidx, ltx, conns, admitted, sess, meter, lim, udp, logged,
    rw, codec>>

\* The Arc of a session whose context has left the map.
Detached == "detached"

\* A connection slot with no connection.
IdleConn == [pc |-> "idle", src |-> "", pwd |-> "", user |-> ""]

\* The order in which collect_update walks the store.
KeySeq == <<"fpA", "fpB">>

\* ------------------------------------------------- Client::fetch_users

\* Whether the first loop of fetch_users removes key p: users.remove(&user.pwd)
\* for every running id that the fetch does not hold.
Removed(p, run, fetched) ==
  \E id \in Ids : run[id] # NoUser /\ fetched[id] = NoUser /\ run[id].pwd = p

\* The first loop of fetch_users.
RemoveAbsent(st, run, fetched) ==
  [users |-> [p \in FPs |-> IF Removed(p, run, fetched) THEN NoCtx ELSE st.users[p]],
   conns |-> [c \in Conns |->
                IF st.conns[c].user \in FPs /\ Removed(st.conns[c].user, run, fetched)
                     /\ st.users[st.conns[c].user] # NoCtx
                  THEN [st.conns[c] EXCEPT !.user = Detached] ELSE st.conns[c]],
   admitted |-> [p \in FPs |-> IF Removed(p, run, fetched) THEN {} ELSE st.admitted[p]]]

\* users.insert(p, u) with (p, u) = user.as_server_user(): the context that was
\* under p, if any, leaves the map, and the sessions holding it keep it alive.
InsertUser(st, user) ==
  [users |-> [st.users EXCEPT ![user.pwd] = as_server_user(user)],
   conns |-> [c \in Conns |->
                IF st.conns[c].user = user.pwd
                  THEN [st.conns[c] EXCEPT !.user = Detached] ELSE st.conns[c]],
   admitted |-> [st.admitted EXCEPT ![user.pwd] = {}]]

\* The body of the second loop of fetch_users for one fetched record.
ReconcileOne(st, run, user) ==
  IF run[user.id] # NoUser
    THEN IF user # run[user.id]
           THEN IF st.users[user.pwd] # NoCtx
                  THEN [st EXCEPT !.users[user.pwd] = update_ctx(user, st.users[user.pwd])]
                  ELSE InsertUser(st, user)
           ELSE st
    ELSE InsertUser(st, user)

\* The second loop of fetch_users, in the order the HashMap iterates.
RECURSIVE ReconcileSeq(_, _, _, _)
ReconcileSeq(st, run, fetched, order) ==
  IF order = <<>> THEN st
  ELSE ReconcileSeq(ReconcileOne(st, run, fetched[Head(order)]), run, fetched, Tail(order))

\* The iteration orders of a HashMap<usize, UserRaw> (RandomState hasher).
Orders(fetched) ==
  LET present == {i \in Ids : fetched[i] # NoUser} IN
  {s \in [1..Cardinality(present) -> present] :
     \A i, j \in 1..Cardinality(present) : i # j => s[i] # s[j]}

\* fetch_users after the response was parsed: both loops under the write lock.
Reconcile(fetched, order) ==
  ReconcileSeq(RemoveAbsent([users |-> users, conns |-> conns, admitted |-> admitted],
                            running, fetched),
               running, fetched, order)

\* Client::fetch_users, the fetch succeeded.
FetchUsers(fetched, order) ==
  /\ cpc = "fetch"
  /\ LET st == Reconcile(fetched, order) IN
       /\ users' = st.users
       /\ conns' = st.conns
       /\ admitted' = st.admitted
       /\ running' = fetched
  /\ cpc' = "sleep"
  /\ logged' = {}
  /\ UNCHANGED <<data, cidx, ltx, sess, meter, lim, udp, rw, codec>>

\* Mutant of FetchFail: the error of fetch_users ends run.
FetchFail_Return ==
  /\ cpc = "fetch"
  /\ cpc' = "returned"
  /\ logged' = {"fetch"}
  /\ UNCHANGED <<users, running, data, cidx, ltx, conns, admitted, sess, meter, lim, udp, rw, codec>>

\* Mutant of FetchFail: the failed fetch forgets the running set.
FetchFail_Forget ==
  /\ cpc = "fetch"
  /\ cpc' = "sleep"
  /\ logged' = {"fetch"}
  /\ running' = [i \in Ids |-> NoUser]
  /\ UNCHANGED <<users, data, cidx, ltx, conns, admitted, sess, meter, lim, udp, rw, codec>>

\* Client::fetch_users, the GET or the JSON parse failed (the ? operators).
FetchFail ==
  /\ cpc = "fetch"
  /\ cpc' = "sleep"
  /\ logged' = {"fetch"}
  /\ UNCHANGED <<users, running, data, cidx, ltx, conns, admitted, sess, meter, lim, udp, rw, codec>>

\* ------------------------------------------------ Client::update_traffic

\* AtomicU64 arithmetic wraps. TLC's integers are 32 bit wide, so the modulus is
\* scaled down; the guards keep every counter far below it, so that only a
\* subtraction below zero wraps.
U64Mod == 2^30

\* AtomicU64::fetch_sub
fetch_sub(a, b) == (a - b) % U64Mod

\* AtomicU64::fetch_add
fetch_add(a, b) == (a + b) % U64Mod

\* The next key of the store at or after position i of the walk, or past the end.
NextKey(i) ==
  IF \E j \in i..Len(KeySeq) : users[KeySeq[j]] # NoCtx
    THEN CHOOSE j \in i..Len(KeySeq) :
           /\ users[KeySeq[j]] # NoCtx
           /\ \A k \in i..Len(KeySeq) : users[KeySeq[k]] # NoCtx => j <= k
    ELSE Len(KeySeq) + 1

\* sleep(self.duration) returns and update_traffic calls collect_update.
Sleep ==
  /\ cpc = "sleep"
  /\ data' = <<>>
  /\ ltx' = 0
  /\ cidx' = NextKey(1)
  /\ cpc' = IF NextKey(1) > Len(KeySeq) THEN "ip" ELSE "collect_tx"
  /\ UNCHANGED <<users, running, conns, admitted, sess, meter, lim, udp, logged, rw, codec>>

\* collect_update: u.tx.load
CollectLoadTx ==
  /\ cpc = "collect_tx"
  /\ ltx' = users[KeySeq[cidx]].tx
  /\ cpc' = "collect_rx"
  /\ UNCHANGED <<users, running, data, cidx, conns, admitted, sess, meter, lim, udp, logged, rw, codec>>

\* The entry collect_update keeps for a user, <<>> when it keeps none.
UpdateDataOf(p, u, tx, rx) ==
  IF tx > 0 \/ rx > 0
    THEN <<[user_id |-> u.id, tx |-> tx, rx |-> rx, pwd |-> p]>>
    ELSE <<>>

\* collect_update: u.rx.load and the filter_map body; after the last user,
\* update_traffic returns when data is empty and sends the POST otherwise.
CollectLoadRx ==
  /\ cpc = "collect_rx"
  /\ LET p == KeySeq[cidx]
         u == users[p]
         d == data \o UpdateDataOf(p, u, ltx, u.rx)
         n == NextKey(cidx + 1)
     IN /\ data' = d
        /\ cidx' = n
        /\ cpc' = IF n <= Len(KeySeq) THEN "collect_tx"
                  ELSE IF d = <<>> THEN "ip" ELSE "post"
  /\ ltx' = 0
  /\ UNCHANGED <<users, running, conns, admitted, sess, meter, lim, udp, logged, rw, codec>>

\* update_traffic: the panel answered ret == 1, assume_update starts.
PostOk ==
  /\ cpc = "post"
  /\ cpc' = "assume_tx"
  /\ cidx' = 1
  /\ UNCHANGED <<running, users, data, ltx, conns, admitted, sess, meter, lim, udp, logged, rw, codec>>

\* update_traffic: the panel answered ret != 1.
PostRejected ==
  /\ cpc = "post"
  /\ cpc' = "ip"
  /\ data' = <<>>
  /\ UNCHANGED <<users, running, cidx, ltx, conns, admitted, sess, meter, lim, udp, logged, rw, codec>>

\* update_traffic: the POST or the JSON parse failed.
PostFail ==
  /\ cpc = "post"
  /\ cpc' = "ip"
  /\ data' = <<>>
  /\ logged' = logged \cup {"traffic"}
  /\ UNCHANGED <<users, running, cidx, ltx, conns, admitted, sess, meter, lim, udp, rw, codec>>

\* Mutant of AssumeTx: the flush zeroes the counter instead of subtracting.
AssumeTx_Zeroing(u, i) == 0

\* assume_update: the value u.tx.fetch_sub leaves.
AssumeTx(u, i) == fetch_sub(u.tx, i.tx)

\* Mutant of AssumeRx: the flush subtracts the entry's tx from rx.
AssumeRx_Swapped(u, i) == fetch_sub(u.rx, i.tx)

\* assume_update: the value u.rx.fetch_sub leaves.
AssumeRx(u, i) == fetch_sub(u.rx, i.rx)

\* assume_update: u.tx.fetch_sub(i.tx) for the entry it is at.
AssumeSubTx ==
  /\ cpc = "assume_tx"
  /\ LET i == data[cidx] IN
       users' = IF users[i.pwd] # NoCtx
                  THEN [users EXCEPT ![i.pwd].tx = AssumeTx(users[i.pwd], i)]
                  ELSE users
  /\ cpc' = "assume_rx"
  /\ UNCHANGED <<running, data, cidx, ltx, conns, admitted, sess, meter, lim, udp, logged, rw, codec>>

\* assume_update: u.rx.fetch_sub(i.rx), then the next entry.
AssumeSubRx ==
  /\ cpc = "assume_rx"
  /\ LET i == data[cidx] IN
       users' = IF users[i.pwd] # NoCtx
                  THEN [users EXCEPT ![i.pwd].rx = AssumeRx(users[i.pwd], i)]
                  ELSE users
  /\ IF cidx < Len(data)
       THEN cpc' = "assume_tx" /\ cidx' = cidx + 1 /\ data' = data
       ELSE cpc' = "ip" /\ cidx' = cidx /\ data' = <<>>
  /\ UNCHANGED <<running, ltx, conns, admitted, sess, meter, lim, udp, logged, rw, codec>>

\* ----------------------------------------------------- Client::upload_ip

\* collect_ip: guard.0.drain() for every user of the store. Each drain holds the
\* user's ips mutex, as verify does, and the drain of one user commutes with a
\* verify of another, so the walk is one step.
collect_ip(us) ==
  [p \in FPs |-> IF us[p] # NoCtx THEN [us[p] EXCEPT !.ips = <<{}, us[p].ips[2]>>] ELSE us[p]]

\* Client::upload_ip: collect_ip drains, and the POST, sent when an address was
\* drained, succeeds or fails; then server_stat, which changes no state.
UploadIp(failed) ==
  /\ cpc = "ip"
  /\ failed => \E p \in FPs : users[p] # NoCtx /\ users[p].ips[1] # {}
  /\ users' = collect_ip(users)
  /\ admitted' = [p \in FPs |-> {}]
  /\ cpc' = "fetch"
  /\ logged' = IF failed THEN logged \cup {"ip"} ELSE logged
  /\ UNCHANGED <<running, data, cidx, ltx, conns, sess, meter, lim, udp, rw, codec>>

\* ------------------------------------------------ ServerContext::verify

\* Mutant of OverLimit: the comparison is off by one.
OverLimit_OffByOne(ips, ip) ==
  /\ ips[2] # NoneV
  /\ Cardinality(ips[1] \cup {ip}) > ips[2][1] + 1

\* verify: whether the IP cap rejects, once ip is inserted into the set.
OverLimit(ips, ip) ==
  /\ ips[2] # NoneV
  /\ Cardinality(ips[1] \cup {ip}) > ips[2][1]

\* verify: the result for a source address and a presented fingerprint.
VerifyResult(ip, pwd) ==
  IF users[pwd] = NoCtx THEN "Password"
  ELSE IF OverLimit(users[pwd].ips, ip) THEN "IpLimit"
  ELSE "Ok"

\* Mutant of VerifyIps: a rejected address stays in the set.
VerifyIps_NoUndo(ips, ip) == <<ips[1] \cup {ip}, ips[2]>>

\* verify: the (set, cap) pair it leaves: ip_guard.0.insert(ip), and
\* ip_guard.0.remove(&ip) when the cap rejects.
VerifyIps(ips, ip) ==
  IF OverLimit(ips, ip)
    THEN <<(ips[1] \cup {ip}) \ {ip}, ips[2]>>
    ELSE <<ips[1] \cup {ip}, ips[2]>>

\* verify: the store it leaves.
VerifyUsers(ip, pwd) ==
  IF users[pwd] = NoCtx THEN users
  ELSE [users EXCEPT ![pwd].ips = VerifyIps(users[pwd].ips, ip)]

\* ------------------------------------------ sessions (ServerSession::run)

\* ServerSession::run up to the result of parse_verify, for a request that
\* parses: Password goes to the fallback, IpLimit returns Ok(()), Ok holds the Arc.
Connect(c, ip, pwd) ==
  /\ conns[c].pc = "idle"
  /\ LET res == VerifyResult(ip, pwd) IN
     /\ users' = VerifyUsers(ip, pwd)
     /\ conns' = [conns EXCEPT ![c] =
                    [pc |-> CASE res = "Ok" -> "setup"
                              [] res = "IpLimit" -> "closed"
                              [] OTHER -> "fallback",
                     src |-> ip, pwd |-> pwd,
                     user |-> IF res = "Ok" THEN pwd ELSE ""]]
     /\ admitted' = IF res = "Ok"
                      THEN [admitted EXCEPT ![pwd] = @ \cup {ip}]
                      ELSE admitted
  /\ UNCHANGED <<running, cpc, data, cidx, ltx, sess, meter, lim, udp, logged, codec>>

\* RelaySession::new (and, with early data, the handshake) succeeded.
SetupOk(c) ==
  /\ conns[c].pc = "setup"
  /\ conns' = [conns EXCEPT ![c].pc = "relay"]
  /\ UNCHANGED <<users, running, cpc, data, cidx, ltx, admitted, sess, meter, lim, udp, logged, rw, codec>>

\* The connection's task returns and drops what it holds.
Drop(c) ==
  /\ conns' = [conns EXCEPT ![c] = IdleConn]
  /\ UNCHANGED <<users, running, cpc, data, cidx, ltx, admitted, sess, meter, lim, udp, logged, rw, codec>>

\* RelaySession::new or the handshake failed: run returns the error (the ? operator).
SetupFail(c) ==
  /\ conns[c].pc = "setup"
  /\ Drop(c)

\* The shared counter after inner.tx.fetch_add / inner.rx.fetch_add of n bytes.
\* A session whose context has left the map counts into that context.
Consumed(us, c, field, n) ==
  IF conns[c].user \in FPs
    THEN [us EXCEPT ![conns[c].user][field] = fetch_add(@, n)]
    ELSE us

\* UserSessionContext::consume_tx
ConsumeTx(c, n) ==
  /\ conns[c].pc = "relay"
  /\ conns[c].user \in FPs => users[conns[c].user].tx + n <= MaxBytes
  /\ users' = Consumed(users, c, "tx", n)
  /\ UNCHANGED <<running, cpc, data, cidx, ltx, conns, admitted, sess, meter, lim, udp, logged, rw, codec>>

\* UserSessionContext::consume_rx
ConsumeRx(c, n) ==
  /\ conns[c].pc = "relay"
  /\ conns[c].user \in FPs => users[conns[c].user].rx + n <= MaxBytes
  /\ users' = Consumed(users, c, "rx", n)
  /\ UNCHANGED <<running, cpc, data, cidx, ltx, conns, admitted, sess, meter, lim, udp, logged, rw, codec>>

\* session.run(stream) returned: log_end, the session context is dropped.
SessionEnd(c) ==
  /\ conns[c].pc = "relay"
  /\ Drop(c)

\* ctx.downgrade returned: the fallback tunnel is over.
FallbackEnd(c) ==
  /\ conns[c].pc = "fallback"
  /\ Drop(c)

\* Ok(None) => return Ok(()): the connection is closed.
CloseSilently(c) ==
  /\ conns[c].pc = "closed"
  /\ Drop(c)

\* ------------------------------------------------------------ specification

NoSess == [pc |-> "none"]

\* No metered stream, no limiter under test, no UDP relay.
NoMeter == [pc |-> "none"]
NoLim == [pc |-> "none"]
NoUdp == [status |-> "none", variant |-> "none"]
NoRw == [pc |-> "none", reader |-> "none"]
NoCodec == [pc |-> "none"]

Init ==
  /\ users = [p \in FPs |-> NoCtx]
  /\ running = [i \in Ids |-> NoUser]
  /\ cpc = "fetch"
  /\ data = <<>>
  /\ cidx = 1
  /\ ltx = 0
  /\ conns = [c \in Conns |-> IdleConn]
  /\ admitted = [p \in FPs |-> {}]
  /\ sess = NoSess
  /\ meter = NoMeter
  /\ lim = NoLim
  /\ udp = NoUdp
  /\ logged = {}
  /\ rw = NoRw
  /\ codec = NoCodec

\* The steps of Client::run up to the POST of update_traffic, with the panel
\* holding the users ids, with the limits rows.
ClientNext(ids, rows) ==
  \/ \E fetched \in FetchSets(ids, rows) : \E order \in Orders(fetched) :
       FetchUsers(fetched, order)
  \/ FetchFail
  \/ Sleep
  \/ CollectLoadTx
  \/ CollectLoadRx
  \/ \E failed \in BOOLEAN : UploadIp(failed)

\* The steps of the connections cs, from the source addresses srcs.
ConnNext(cs, srcs) ==
  \/ \E c \in cs, ip \in srcs, pwd \in FPs : Connect(c, ip, pwd) /\ UNCHANGED rw
  \/ \E c \in cs : SetupOk(c)
  \/ \E c \in cs : SetupFail(c)
  \/ \E c \in cs : SessionEnd(c)
  \/ \E c \in cs : FallbackEnd(c)

\* The store, the client loop and a session that relays traffic, without IP caps.
\* One user id: a second key of the store comes from a change of fingerprint.
Next ==
  \/ ClientNext(OneUser, FreeRows)
  \/ PostOk
  \/ PostRejected
  \/ PostFail
  \/ AssumeSubTx
  \/ AssumeSubRx
  \/ ConnNext(OneConn, {"ipA"})
  \/ \E c \in OneConn, n \in 1..MaxBytes : ConsumeTx(c, n)
  \/ \E c \in OneConn, n \in 1..MaxBytes : ConsumeRx(c, n)

Spec == Init /\ [][Next]_vars

\* The steps of Client::run.
ClientStep ==
  \/ ClientNext(OneUser, FreeRows)
  \/ PostOk
  \/ PostRejected
  \/ PostFail
  \/ AssumeSubTx
  \/ AssumeSubRx

\* The client loop next to one session that sends bytes upstream, so that the
\* store, the traffic report and the address report are at times empty and at
\* times not.
NextLoop ==
  \/ ClientStep
  \/ ConnNext(OneConn, {"ipA"})
  \/ \E c \in OneConn : ConsumeTx(c, 1)

\* The control-plane task is scheduled again and again: the runtime polls it
\* whenever the sleep or the HTTP call it awaits has completed.
SpecLoop == Init /\ [][NextLoop]_vars /\ WF_vars(ClientStep)

\* The store, the client loop and sessions under IP caps; no byte is
\* relayed, so collect_update finds nothing and update_traffic returns before the
\* POST.
NextIp ==
  \/ ClientNext(OneUser, CapRows)
  \/ ConnNext(Conns, IPs)
  \/ \E c \in Conns : CloseSilently(c)

SpecIp == Init /\ [][NextIp]_vars

\* The limits rows of the specification of the store with two users: no limit,
\* or 1 MiB/s and a cap of 1 address.
StoreRows == {<<0, 0, 0>>, <<1, 1, 0>>}

\* The fetches in which no two users have the same fingerprint: the panel
\* derives the fingerprint from the uuid of the user. User 2 has no limits.
StoreFetches ==
  {f \in FetchSets(Ids, StoreRows) :
     /\ \A i, j \in Ids : i # j /\ f[i] # NoUser /\ f[j] # NoUser => f[i].pwd # f[j].pwd
     /\ f[2].speed_limit = 0}

\* The store of two users, the client loop and one session that sends bytes
\* upstream.
NextStore ==
  \/ \E fetched \in StoreFetches : \E order \in Orders(fetched) : FetchUsers(fetched, order)
  \/ FetchFail
  \/ Sleep
  \/ CollectLoadTx
  \/ CollectLoadRx
  \/ PostOk
  \/ PostRejected
  \/ AssumeSubTx
  \/ AssumeSubRx
  \/ UploadIp(FALSE)
  \/ ConnNext(OneConn, {"ipA"})
  \/ \E c \in OneConn : ConsumeTx(c, 1)

SpecStore == Init /\ [][NextStore]_vars

\* ---------------------------------- ServerContext.users: the RwLock in detail

\* Mutant of CanRead: users.read() does not wait for the writer.
CanRead_Always(l) == TRUE

\* RwLock::read returns: no write guard is alive.
CanRead(l) == l.pc = "idle"

\* RwLock::write returns: no guard is alive.
CanWrite(l) == l.pc = "idle" /\ l.reader = "none"

\* What a reader can tell of the store: per fingerprint whether it is a key, and
\* the id, the limiter and the IP cap of its context.
StoreView(us) ==
  [p \in FPs |-> [key |-> us[p] # NoCtx, id |-> us[p].id, limiter |-> us[p].limiter,
                  cap |-> us[p].ips[2]]]

\* The store and the session bookkeeping as one value, as Reconcile takes it.
StoreNow == [users |-> users, conns |-> conns, admitted |-> admitted]

\* running with only the record of id.
OnlyId(run, id) == [i \in Ids |-> IF i = id THEN run[i] ELSE NoUser]

\* collect_update, assume_update and collect_ip are calls of the task that calls
\* fetch_users, which is at one of them or in fetch_users, never both.

\* fetch_users, the response parsed: self.server.users.write() returns. before
\* and after are the store's views at this point and as the two loops will
\* leave it; rem the running ids the first loop has yet to visit, order the
\* fetched ids the second loop has yet to visit.
WriteLock(fetched, order) ==
  /\ cpc = "fetch"
  /\ CanWrite(rw)
  /\ rw' = [rw EXCEPT !.pc = "remove", !.fetched = fetched, !.order = order,
                      !.rem = {i \in Ids : running[i] # NoUser},
                      !.before = StoreView(users),
                      !.after = StoreView(Reconcile(fetched, order).users)]
  /\ UNCHANGED <<users, running, cpc, data, cidx, ltx, conns, admitted, sess, meter, lim,
                 udp, logged, codec>>

\* One round of the first loop of fetch_users.
WriteRemove(id) ==
  /\ rw.pc = "remove"
  /\ id \in rw.rem
  /\ LET st == RemoveAbsent(StoreNow, OnlyId(running, id), rw.fetched) IN
       /\ users' = st.users
       /\ conns' = st.conns
       /\ admitted' = st.admitted
  /\ rw' = [rw EXCEPT !.rem = @ \ {id}, !.pc = IF rw.rem = {id} THEN "apply" ELSE @]
  /\ UNCHANGED <<running, cpc, data, cidx, ltx, sess, meter, lim, udp, logged, codec>>

\* The first loop has nothing to visit.
WriteRemoveNone ==
  /\ rw.pc = "remove"
  /\ rw.rem = {}
  /\ rw' = [rw EXCEPT !.pc = "apply"]
  /\ UNCHANGED <<users, running, cpc, data, cidx, ltx, conns, admitted, sess, meter, lim,
                 udp, logged, codec>>

\* One round of the second loop of fetch_users.
WriteApply ==
  /\ rw.pc = "apply"
  /\ rw.order # <<>>
  /\ LET st == ReconcileOne(StoreNow, running, rw.fetched[Head(rw.order)]) IN
       /\ users' = st.users
       /\ conns' = st.conns
       /\ admitted' = st.admitted
  /\ rw' = [rw EXCEPT !.order = Tail(@)]
  /\ UNCHANGED <<running, cpc, data, cidx, ltx, sess, meter, lim, udp, logged, codec>>

\* self.running = fetch_users, and fetch_users returns: the write guard drops.
WriteUnlock ==
  /\ rw.pc = "apply"
  /\ rw.order = <<>>
  /\ running' = rw.fetched
  /\ cpc' = "sleep"
  /\ logged' = {}
  /\ rw' = [rw EXCEPT !.pc = "idle"]
  /\ UNCHANGED <<users, data, cidx, ltx, conns, admitted, sess, meter, lim, udp, codec>>

\* verify, called by the task of connection c: self.users.read() returns.
ReadLock(c, ip, pwd) ==
  /\ conns[c].pc = "idle"
  /\ rw.reader = "none"
  /\ CanRead(rw)
  /\ rw' = [rw EXCEPT !.reader = "locked", !.c = c, !.ip = ip, !.pwd = pwd]
  /\ UNCHANGED <<users, running, cpc, data, cidx, ltx, conns, admitted, sess, meter, lim,
                 udp, logged, codec>>

\* verify: the lookup and the check of the address, under the read guard.
ReadVerify ==
  /\ rw.reader = "locked"
  /\ Connect(rw.c, rw.ip, rw.pwd)
  /\ rw' = [rw EXCEPT !.reader = "verified"]

\* verify returns: the read guard drops.
ReadUnlock ==
  /\ rw.reader = "verified"
  /\ rw' = [rw EXCEPT !.reader = "none"]
  /\ UNCHANGED <<users, running, cpc, data, cidx, ltx, conns, admitted, sess, meter, lim,
                 udp, logged, codec>>

\* What the panel returns under SpecLock: user 1 without an IP cap or with a cap
\* of 1, user 2 without a cap.
LockFetches ==
  {f \in FetchSets(Ids, {<<0, 0, 0>>, <<0, 1, 0>>}) : f[2].ip_limit = 0}

InitLock ==
  /\ Init!1 /\ Init!2 /\ Init!3 /\ Init!4 /\ Init!5 /\ Init!6 /\ Init!7 /\ Init!8
  /\ sess = NoSess
  /\ meter = NoMeter
  /\ lim = NoLim
  /\ udp = NoUdp
  /\ logged = {}
  /\ rw = [pc |-> "idle", reader |-> "none", fetched |-> [i \in Ids |-> NoUser],
           order |-> <<>>, rem |-> {}, before |-> StoreView(users),
           after |-> StoreView(users), c |-> "c1", ip |-> "ipA", pwd |-> "fpA"]
  /\ codec = NoCodec

NextLock ==
  \/ \E fetched \in LockFetches : \E order \in Orders(fetched) :
       WriteLock(fetched, order)
  \/ \E id \in Ids : WriteRemove(id)
  \/ WriteRemoveNone
  \/ WriteApply
  \/ WriteUnlock
  \/ Sleep
  \/ CollectLoadTx
  \/ CollectLoadRx
  \/ \E failed \in BOOLEAN : UploadIp(failed)
  \/ \E ip \in {"ipA"}, pwd \in FPs : ReadLock("c1", ip, pwd)
  \/ ReadVerify
  \/ ReadUnlock
  \/ SetupFail("c1")
  \/ FallbackEnd("c1")

SpecLock == InitLock /\ [][NextLock]_vars

\* ------------------------- the store lock and the two mutexes of a context

\* The control-plane task and two session tasks, on the threads of the runtime.
Threads == {"ctl", "s1", "s2"}
SessionThreads == {"s1", "s2"}

\* Where a thread is blocked in RwLock::read, RwLock::write or Mutex::lock.
WaitPcs ==
  {"verify_read_wait", "collect_read_wait", "ip_read_wait", "fetch_write_wait",
   "verify_wait", "update_bucket_wait", "update_ips_wait", "ip_wait", "consume_wait"}

\* Where a task is suspended (an .await) or between two calls.
SuspendPcs == {"idle", "fetch_await", "post_await"}

\* The lock the thread t asks for, or none.
Wanted(l, t) ==
  CASE l.pc[t] \in {"verify_read_wait", "collect_read_wait", "ip_read_wait"} -> <<"read">>
    [] l.pc[t] = "fetch_write_wait" -> <<"write">>
    [] l.pc[t] \in {"verify_wait", "update_ips_wait", "ip_wait"} -> <<"ips", l.key[t]>>
    [] l.pc[t] \in {"update_bucket_wait", "consume_wait"} -> <<"bucket", l.key[t]>>
    [] OTHER -> <<"none">>

\* The threads that hold what stands in the way of the lock k.
Holders(l, k) ==
  CASE k[1] = "read" -> {l.writer} \ {"none"}
    [] k[1] = "write" -> ({l.writer} \ {"none"}) \cup l.readers
    [] k[1] = "ips" -> {l.ips[k[2]]} \ {"none"}
    [] k[1] = "bucket" -> {l.bucket[k[2]]} \ {"none"}
    [] OTHER -> {}

\* The lock call of t returns, or t is in no lock call.
Runnable(l, t) == Holders(l, Wanted(l, t)) = {}

\* The per-user mutexes the thread t holds.
Mutexes(l, t) ==
  {<<"ips", q>> : q \in {r \in FPs : l.ips[r] = t}}
    \cup {<<"bucket", q>> : q \in {r \in FPs : l.bucket[r] = t}}

\* Whether t holds a guard of the store.
HoldsStore(l, t) == l.writer = t \/ t \in l.readers

MutexFrame ==
  UNCHANGED <<users, running, cpc, data, cidx, ltx, conns, admitted, sess, meter, lim,
              udp, logged, codec>>

\* A session calls verify with the fingerprint p, a key of the store or not.
VerifyCall(t, p, known) ==
  /\ rw.pc[t] = "idle"
  /\ rw' = [rw EXCEPT !.pc[t] = "verify_read_wait", !.key[t] = p, !.known[t] = known]
  /\ MutexFrame

\* verify: self.users.read() returns.
VerifyRead(t) ==
  /\ rw.pc[t] = "verify_read_wait"
  /\ Runnable(rw, t)
  /\ rw' = [rw EXCEPT !.readers = @ \cup {t},
                      !.pc[t] = IF rw.known[t] THEN "verify_wait" ELSE "verify_unknown"]
  /\ MutexFrame

\* verify: users.get(pwd) is None, the ? returns and the read guard drops.
VerifyUnknown(t) ==
  /\ rw.pc[t] = "verify_unknown"
  /\ rw' = [rw EXCEPT !.readers = @ \ {t}, !.pc[t] = "idle"]
  /\ MutexFrame

\* verify: user.ips.lock() returns.
VerifyIpsLock(t) ==
  /\ rw.pc[t] = "verify_wait"
  /\ Runnable(rw, t)
  /\ rw' = [rw EXCEPT !.ips[rw.key[t]] = t, !.pc[t] = "verify_ips"]
  /\ MutexFrame

\* verify returns: ip_guard drops, then users.
VerifyReturn(t) ==
  /\ rw.pc[t] = "verify_ips"
  /\ rw' = [rw EXCEPT !.ips[rw.key[t]] = "none", !.readers = @ \ {t}, !.pc[t] = "idle"]
  /\ MutexFrame

\* Limiter::consume of a session that holds the context p, limited: it asks for
\* the bucket. With is_unlimited set consume returns before the lock.
ConsumeCall(t, p) ==
  /\ rw.pc[t] = "idle"
  /\ rw' = [rw EXCEPT !.pc[t] = "consume_wait", !.key[t] = p]
  /\ MutexFrame

\* Limiter::consume: self.bucket.lock() returns.
ConsumeLock(t) ==
  /\ rw.pc[t] = "consume_wait"
  /\ Runnable(rw, t)
  /\ rw' = [rw EXCEPT !.bucket[rw.key[t]] = t, !.pc[t] = "consume"]
  /\ MutexFrame

\* Limiter::consume returns: the guard drops.
ConsumeReturn(t) ==
  /\ rw.pc[t] = "consume"
  /\ rw' = [rw EXCEPT !.bucket[rw.key[t]] = "none", !.pc[t] = "idle"]
  /\ MutexFrame

\* fetch_users: send().await, then json().await.
FetchAwait ==
  /\ rw.pc["ctl"] = "idle"
  /\ rw' = [rw EXCEPT !.pc["ctl"] = "fetch_await"]
  /\ MutexFrame

\* fetch_users: the GET or the parse failed, the ? returns.
FetchAwaitFailed ==
  /\ rw.pc["ctl"] = "fetch_await"
  /\ rw' = [rw EXCEPT !.pc["ctl"] = "idle"]
  /\ MutexFrame

\* fetch_users: the response is parsed. todo are the keys whose context the
\* second loop will pass to update_ctx; remove and insert take no mutex.
FetchParsed(todo) ==
  /\ rw.pc["ctl"] = "fetch_await"
  /\ rw' = [rw EXCEPT !.pc["ctl"] = "fetch_write_wait", !.todo = todo]
  /\ MutexFrame

\* fetch_users: self.server.users.write() returns.
FetchWrite ==
  /\ rw.pc["ctl"] = "fetch_write_wait"
  /\ Runnable(rw, "ctl")
  /\ rw' = [rw EXCEPT !.writer = "ctl", !.pc["ctl"] = "fetch"]
  /\ MutexFrame

\* update_ctx for the context under p: set_speed_limit asks for the bucket
\* unless the new rate is INFINITY.
UpdateCall(p, limited) ==
  /\ rw.pc["ctl"] = "fetch"
  /\ p \in rw.todo
  /\ rw' = [rw EXCEPT !.key["ctl"] = p,
                      !.pc["ctl"] = IF limited THEN "update_bucket_wait"
                                    ELSE "update_ips_wait"]
  /\ MutexFrame

\* set_speed_limit: self.bucket.lock() returns.
UpdateBucketLock ==
  /\ rw.pc["ctl"] = "update_bucket_wait"
  /\ Runnable(rw, "ctl")
  /\ rw' = [rw EXCEPT !.bucket[rw.key["ctl"]] = "ctl", !.pc["ctl"] = "update_bucket"]
  /\ MutexFrame

\* Mutant of UpdateBucketUnlock: the guard of the bucket lives on to the end of
\* update_ctx.
UpdateBucketUnlock_Keep ==
  /\ rw.pc["ctl"] = "update_bucket"
  /\ rw' = [rw EXCEPT !.pc["ctl"] = "update_ips_wait"]
  /\ MutexFrame

\* set_speed_limit: the rate is stored and the temporary guard drops at the end
\* of the statement; update_ctx goes on to ctx.ips.lock().
UpdateBucketUnlock ==
  /\ rw.pc["ctl"] = "update_bucket"
  /\ rw' = [rw EXCEPT !.bucket[rw.key["ctl"]] = "none", !.pc["ctl"] = "update_ips_wait"]
  /\ MutexFrame

\* update_ctx: ctx.ips.lock() returns.
UpdateIpsLock ==
  /\ rw.pc["ctl"] = "update_ips_wait"
  /\ Runnable(rw, "ctl")
  /\ rw' = [rw EXCEPT !.ips[rw.key["ctl"]] = "ctl", !.pc["ctl"] = "update_ips"]
  /\ MutexFrame

\* update_ctx: the cap is stored and the temporary guard drops.
UpdateIpsUnlock ==
  /\ rw.pc["ctl"] = "update_ips"
  /\ rw' = [rw EXCEPT !.ips[rw.key["ctl"]] = "none", !.todo = @ \ {rw.key["ctl"]},
                      !.pc["ctl"] = "fetch"]
  /\ MutexFrame

\* fetch_users returns: the write guard drops.
FetchReturn ==
  /\ rw.pc["ctl"] = "fetch"
  /\ rw.todo = {}
  /\ rw' = [rw EXCEPT !.writer = "none", !.pc["ctl"] = "idle"]
  /\ MutexFrame

\* collect_update or assume_update is called.
CollectCall ==
  /\ rw.pc["ctl"] = "idle"
  /\ rw' = [rw EXCEPT !.pc["ctl"] = "collect_read_wait"]
  /\ MutexFrame

\* collect_update, assume_update: self.users.read() returns.
CollectRead ==
  /\ rw.pc["ctl"] = "collect_read_wait"
  /\ Runnable(rw, "ctl")
  /\ rw' = [rw EXCEPT !.readers = @ \cup {"ctl"}, !.pc["ctl"] = "collect"]
  /\ MutexFrame

\* collect_update, assume_update return, the read guard drops; update_traffic
\* returns or awaits the POST.
CollectReturn(post) ==
  /\ rw.pc["ctl"] = "collect"
  /\ rw' = [rw EXCEPT !.readers = @ \ {"ctl"},
                      !.pc["ctl"] = IF post THEN "post_await" ELSE "idle"]
  /\ MutexFrame

\* The POST of update_traffic or upload_ip is over.
PostAwaited ==
  /\ rw.pc["ctl"] = "post_await"
  /\ rw' = [rw EXCEPT !.pc["ctl"] = "idle"]
  /\ MutexFrame

\* collect_ip is called; todo are the keys of the store.
IpCall(todo) ==
  /\ rw.pc["ctl"] = "idle"
  /\ rw' = [rw EXCEPT !.pc["ctl"] = "ip_read_wait", !.todo = todo]
  /\ MutexFrame

\* collect_ip: self.users.read() returns.
IpRead ==
  /\ rw.pc["ctl"] = "ip_read_wait"
  /\ Runnable(rw, "ctl")
  /\ rw' = [rw EXCEPT !.readers = @ \cup {"ctl"}, !.pc["ctl"] = "ip"]
  /\ MutexFrame

\* collect_ip: the loop comes to the context under p.
IpNext(p) ==
  /\ rw.pc["ctl"] = "ip"
  /\ p \in rw.todo
  /\ rw' = [rw EXCEPT !.key["ctl"] = p, !.pc["ctl"] = "ip_wait"]
  /\ MutexFrame

\* collect_ip: u.ips.lock() returns.
IpLock ==
  /\ rw.pc["ctl"] = "ip_wait"
  /\ Runnable(rw, "ctl")
  /\ rw' = [rw EXCEPT !.ips[rw.key["ctl"]] = "ctl", !.pc["ctl"] = "ip_held"]
  /\ MutexFrame

\* collect_ip: the set is drained and the guard drops at the end of the round.
IpUnlock ==
  /\ rw.pc["ctl"] = "ip_held"
  /\ rw' = [rw EXCEPT !.ips[rw.key["ctl"]] = "none", !.todo = @ \ {rw.key["ctl"]},
                      !.pc["ctl"] = "ip"]
  /\ MutexFrame

\* collect_ip returns, the read guard drops; upload_ip returns or awaits the POST.
IpReturn(post) ==
  /\ rw.pc["ctl"] = "ip"
  /\ rw.todo = {}
  /\ rw' = [rw EXCEPT !.readers = @ \ {"ctl"},
                      !.pc["ctl"] = IF post THEN "post_await" ELSE "idle"]
  /\ MutexFrame

InitMutex ==
  /\ Init!1 /\ Init!2 /\ Init!3 /\ Init!4 /\ Init!5 /\ Init!6 /\ Init!7 /\ Init!8
  /\ sess = NoSess
  /\ meter = NoMeter
  /\ lim = NoLim
  /\ udp = NoUdp
  /\ logged = {}
  /\ rw = [pc |-> [t \in Threads |-> "idle"], key |-> [t \in Threads |-> "fpA"],
           known |-> [t \in Threads |-> FALSE], todo |-> {},
           writer |-> "none", readers |-> {},
           ips |-> [q \in FPs |-> "none"], bucket |-> [q \in FPs |-> "none"]]
  /\ codec = NoCodec

NextMutex ==
  \/ \E t \in SessionThreads, p \in FPs, known \in BOOLEAN : VerifyCall(t, p, known)
  \/ \E t \in SessionThreads : VerifyRead(t)
  \/ \E t \in SessionThreads : VerifyUnknown(t)
  \/ \E t \in SessionThreads : VerifyIpsLock(t)
  \/ \E t \in SessionThreads : VerifyReturn(t)
  \/ \E t \in SessionThreads, p \in FPs : ConsumeCall(t, p)
  \/ \E t \in SessionThreads : ConsumeLock(t)
  \/ \E t \in SessionThreads : ConsumeReturn(t)
  \/ FetchAwait
  \/ FetchAwaitFailed
  \/ \E todo \in SUBSET FPs : FetchParsed(todo)
  \/ FetchWrite
  \/ \E p \in FPs, limited \in BOOLEAN : UpdateCall(p, limited)
  \/ UpdateBucketLock
  \/ UpdateBucketUnlock
  \/ UpdateIpsLock
  \/ UpdateIpsUnlock
  \/ FetchReturn
  \/ CollectCall
  \/ CollectRead
  \/ \E post \in BOOLEAN : CollectReturn(post)
  \/ PostAwaited
  \/ \E todo \in SUBSET FPs : IpCall(todo)
  \/ IpRead
  \/ \E p \in FPs : IpNext(p)
  \/ IpLock
  \/ IpUnlock
  \/ \E post \in BOOLEAN : IpReturn(post)

SpecMutex == InitMutex /\ [][NextMutex]_vars

\* ------------------------------- one connection: ServerSession::run in detail

\* Cap on the number of payload bytes that follow the first byte of the
\* candidate request.
MaxPayload == 1

\* Cap on the count of bytes written to the client over the TLS stream.
MaxOut == 1

\* Fallback policies (enum Fallback).
Policies == {"reject", "connect", "proxy"}

\* ServerContext.alpn_fallback: the policy configured for ALPN "h2".
AlpnFallback == [h2 |-> "proxy"]

\* The bytes of the tunnel, in units: a unit is one well-formed request header
\* (fingerprint, CRLF, command, address, CRLF), or one byte of anything else.
Headers == [reqA_tcp |-> [pwd |-> "fpA", cmd |-> "Connect"],
            reqA_udp |-> [pwd |-> "fpA", cmd |-> "UdpAssociate"],
            reqB_tcp |-> [pwd |-> "fpB", cmd |-> "Connect"]]

HeaderUnits == DOMAIN Headers

\* Byte strings of at most n units that hold no header.
RECURSIVE Plain(_)
Plain(n) ==
  IF n = 0 THEN {<<>>}
  ELSE Plain(n - 1) \cup {Append(b, "x") : b \in Plain(n - 1)}

\* What the client may have sent when the server first looks: nothing (the read
\* returns 0), bytes that are no request, or a request and the payload after it.
FirstData ==
  Plain(MaxPayload + 1) \cup
  {<<h>> \o b : h \in HeaderUnits, b \in Plain(MaxPayload)}

\* RequestRef::from_bytes: Ok with the fields, or ProtocolError.
from_bytes(bytes) ==
  IF bytes # <<>> /\ Head(bytes) \in HeaderUnits
    THEN [ok |-> TRUE, pwd |-> Headers[Head(bytes)].pwd, cmd |-> Headers[Head(bytes)].cmd,
          payload |-> Tail(bytes)]
    ELSE [ok |-> FALSE, pwd |-> "", cmd |-> "", payload |-> <<>>]

\* ServerSession::parse_verify: "Parse" and "Password" are its Err results,
\* "IpLimit" is Ok(None), "Ok" is Ok(Some((req, user))).
parse_verify(ip, bytes) ==
  IF ~from_bytes(bytes).ok THEN "Parse" ELSE VerifyResult(ip, from_bytes(bytes).pwd)

\* The store parse_verify leaves.
ParseVerifyUsers(ip, bytes) ==
  IF ~from_bytes(bytes).ok THEN users ELSE VerifyUsers(ip, from_bytes(bytes).pwd)

\* ServerContext::downgrade: the policy for the negotiated ALPN protocol.
DowngradePolicy(s) ==
  IF s.alpn # "" /\ s.alpn \in DOMAIN AlpnFallback THEN AlpnFallback[s.alpn] ELSE s.fallback

\* ProxyProtocolV2::encode, in units: the signature block and the address block.
ProxyHeader == <<"v2sig", "v2addr">>

\* The header Fallback::fallback writes ahead of the data.
FallbackHeader(policy) == IF policy = "proxy" THEN ProxyHeader ELSE <<>>

\* The connection before the ClientHello.
NewSess(fallback) ==
  [pc |-> "accept", src |-> "ipA", alpn |-> "", fallback |-> fallback,
   early |-> FALSE, data |-> <<>>, res |-> "",
   hs |-> "pending", up |-> "none", fb |-> "none", fbout |-> <<>>, toclient |-> 0]

\* Where run goes after parse_verify.
AfterParse(early, res) ==
  CASE res = "Ok" -> IF early THEN "join" ELSE "open"
    [] res = "IpLimit" -> "done"
    [] OTHER -> IF early THEN "fb_hs_wait" ELSE "downgrade"

\* Mutant of JoinReady: the relay starts as soon as the upstream socket is open.
JoinReady_OpenOnly(s) == s.up = "open"

\* tokio::try_join!(RelaySession::new(..), accept) is ready: both futures are.
JoinReady(s) == s.up = "open" /\ s.hs = "done"

ConnFrame == UNCHANGED <<running, cpc, data, cidx, ltx, conns, admitted, meter, lim, udp, logged, rw, codec>>

\* LazyConfigAcceptor resolved and the client sent no early data.
AcceptPlain(alpn) ==
  /\ sess.pc = "accept"
  /\ sess' = [sess EXCEPT !.pc = "hs_wait", !.alpn = alpn]
  /\ UNCHANGED users
  /\ ConnFrame

\* LazyConfigAcceptor resolved with early data d: parse_verify(&early_data).
AcceptEarly(alpn, d) ==
  /\ sess.pc = "accept"
  /\ d # <<>>
  /\ LET res == parse_verify(sess.src, d) IN
       sess' = [sess EXCEPT !.alpn = alpn, !.early = TRUE, !.data = d, !.res = res,
                            !.pc = AfterParse(TRUE, res)]
  /\ users' = ParseVerifyUsers(sess.src, d)
  /\ ConnFrame

\* acceptor.await? failed.
AcceptFail ==
  /\ sess.pc = "accept"
  /\ sess' = [sess EXCEPT !.pc = "done", !.hs = "failed"]
  /\ UNCHANGED users
  /\ ConnFrame

\* The accept future completed: the TLS handshake is done.
HandshakeDone ==
  /\ sess.pc \in {"hs_wait", "join", "fb_hs_wait"}
  /\ sess.hs = "pending"
  /\ LET s == [sess EXCEPT !.hs = "done"] IN
       sess' = [s EXCEPT !.pc = CASE sess.pc = "hs_wait" -> "read"
                                  [] sess.pc = "fb_hs_wait" -> "downgrade"
                                  [] OTHER -> IF JoinReady(s) THEN "relay" ELSE "join"]
  /\ UNCHANGED users
  /\ ConnFrame

\* The accept future failed: run returns the error.
HandshakeFail ==
  /\ sess.pc \in {"hs_wait", "join", "fb_hs_wait"}
  /\ sess.hs = "pending"
  /\ sess' = [sess EXCEPT !.hs = "failed", !.pc = "done"]
  /\ UNCHANGED users
  /\ ConnFrame

\* stream.read(&mut buf) returned d: parse_verify(header).
ReadFirst(d) ==
  /\ sess.pc = "read"
  /\ LET res == parse_verify(sess.src, d) IN
       sess' = [sess EXCEPT !.data = d, !.res = res, !.pc = AfterParse(FALSE, res)]
  /\ users' = ParseVerifyUsers(sess.src, d)
  /\ ConnFrame

\* stream.read(&mut buf) failed.
ReadFail ==
  /\ sess.pc = "read"
  /\ sess' = [sess EXCEPT !.pc = "done"]
  /\ UNCHANGED users
  /\ ConnFrame

\* RelaySession::new opened the upstream socket.
OpenOk ==
  /\ sess.pc \in {"open", "join"}
  /\ sess.up = "none"
  /\ LET s == [sess EXCEPT !.up = "open"] IN
       sess' = [s EXCEPT !.pc = IF sess.pc = "open" \/ JoinReady(s) THEN "relay" ELSE "join"]
  /\ UNCHANGED users
  /\ ConnFrame

\* RelaySession::new failed.
OpenFail ==
  /\ sess.pc \in {"open", "join"}
  /\ sess.up = "none"
  /\ sess' = [sess EXCEPT !.up = "failed", !.pc = "done"]
  /\ UNCHANGED users
  /\ ConnFrame

\* session.run(stream): the relay wrote a byte to the client.
RelayWrite ==
  /\ sess.pc = "relay"
  /\ sess.toclient < MaxOut
  /\ sess' = [sess EXCEPT !.toclient = @ + 1]
  /\ UNCHANGED users
  /\ ConnFrame

\* session.run(stream) returned.
RelayEnd ==
  /\ sess.pc = "relay"
  /\ sess' = [sess EXCEPT !.pc = "done"]
  /\ UNCHANGED users
  /\ ConnFrame

\* Fallback::fallback, Reject: nothing is done and the stream is dropped.
FbReject ==
  /\ sess.pc = "downgrade"
  /\ DowngradePolicy(sess) = "reject"
  /\ sess' = [sess EXCEPT !.pc = "done"]
  /\ UNCHANGED users
  /\ ConnFrame

\* Fallback::fallback, Connect or Proxy: TcpStream::connect(a) succeeded.
FbConnectOk ==
  /\ sess.pc = "downgrade"
  /\ DowngradePolicy(sess) # "reject"
  /\ sess' = [sess EXCEPT !.fb = "open",
                          !.pc = IF DowngradePolicy(sess) = "proxy" THEN "fb_hdr" ELSE "fb_data"]
  /\ UNCHANGED users
  /\ ConnFrame

\* TcpStream::connect(a) failed.
FbConnectFail ==
  /\ sess.pc = "downgrade"
  /\ DowngradePolicy(sess) # "reject"
  /\ sess' = [sess EXCEPT !.fb = "failed", !.pc = "done"]
  /\ UNCHANGED users
  /\ ConnFrame

\* The counts a single write of buf may return: it accepts a prefix.
WriteCounts(buf) == IF buf = <<>> THEN {0} ELSE 1..Len(buf)

\* What one downgrade.write(buf) puts on the fallback socket when it returns n.
Written(buf, n) == SubSeq(buf, 1, n)

\* Where fallback goes after a write of buf returned n: debug_assert_eq!(n,
\* buf.len()) panics in a build with debug assertions and is absent otherwise.
AfterWrite(buf, n, debug, next) == IF debug /\ n # Len(buf) THEN "done" ELSE next

\* Proxy: downgrade.write(&proxy_headers) returned n.
FbWriteHeader(n, debug) ==
  /\ sess.pc = "fb_hdr"
  /\ n \in WriteCounts(ProxyHeader)
  /\ sess' = [sess EXCEPT !.fbout = @ \o Written(ProxyHeader, n),
                          !.pc = AfterWrite(ProxyHeader, n, debug, "fb_data")]
  /\ UNCHANGED users
  /\ ConnFrame

\* downgrade.write(data) returned n.
FbWriteData(n, debug) ==
  /\ sess.pc = "fb_data"
  /\ n \in WriteCounts(sess.data)
  /\ sess' = [sess EXCEPT !.fbout = @ \o Written(sess.data, n),
                          !.pc = AfterWrite(sess.data, n, debug, "fb_copy")]
  /\ UNCHANGED users
  /\ ConnFrame

\* A write to the fallback socket failed.
FbWriteFail ==
  /\ sess.pc \in {"fb_hdr", "fb_data"}
  /\ sess' = [sess EXCEPT !.pc = "done"]
  /\ UNCHANGED users
  /\ ConnFrame

\* copy_bidirectional(stream, &mut downgrade) wrote a byte to the client.
FbCopyToClient ==
  /\ sess.pc = "fb_copy"
  /\ sess.toclient < MaxOut
  /\ sess' = [sess EXCEPT !.toclient = @ + 1]
  /\ UNCHANGED users
  /\ ConnFrame

\* copy_bidirectional returned.
FbCopyEnd ==
  /\ sess.pc = "fb_copy"
  /\ sess' = [sess EXCEPT !.pc = "done"]
  /\ UNCHANGED users
  /\ ConnFrame

\* A store the client loop leaves after a fetch of user 1 under fpA, without a
\* cap or with cap 1, whose ips set is empty or holds the address of another
\* connection; a connection from ipA arrives.
InitConn ==
  /\ \E r \in {<<0, 0, 0>>, <<0, 1, 0>>} : \E held \in {{}, {"ipB"}} :
       LET u == [id |-> 1, pwd |-> "fpA", speed_limit |-> r[1], ip_limit |-> r[2],
                 ip_online |-> r[3]]
       IN /\ running = [i \in Ids |-> IF i = 1 THEN u ELSE NoUser]
          /\ users = [p \in FPs |->
                        IF p = "fpA"
                          THEN [as_server_user(u) EXCEPT !.ips = <<held, ip_limit(u)>>]
                          ELSE NoCtx]
          /\ admitted = [p \in FPs |-> IF p = "fpA" THEN held ELSE {}]
  /\ cpc = "sleep"
  /\ data = <<>>
  /\ cidx = 1
  /\ ltx = 0
  /\ conns = [c \in Conns |-> IdleConn]
  /\ \E f \in Policies : sess = NewSess(f)
  /\ meter = NoMeter
  /\ lim = NoLim
  /\ udp = NoUdp
  /\ logged = {}
  /\ rw = NoRw
  /\ codec = NoCodec

NextConn ==
  \/ \E alpn \in {"", "h2"} : AcceptPlain(alpn)
  \/ \E alpn \in {"", "h2"}, d \in FirstData : AcceptEarly(alpn, d)
  \/ AcceptFail
  \/ HandshakeDone
  \/ HandshakeFail
  \/ \E d \in FirstData : ReadFirst(d)
  \/ ReadFail
  \/ OpenOk
  \/ OpenFail
  \/ RelayWrite
  \/ RelayEnd
  \/ FbReject
  \/ FbConnectOk
  \/ FbConnectFail
  \/ \E n \in 1..Len(ProxyHeader), debug \in BOOLEAN : FbWriteHeader(n, debug)
  \/ \E n \in 0..(MaxPayload + 1), debug \in BOOLEAN : FbWriteData(n, debug)
  \/ FbWriteFail
  \/ FbCopyToClient
  \/ FbCopyEnd

SpecConn == InitConn /\ [][NextConn]_vars


\* --------------------- the metered session: UserSessionContext, StreamWrapper

\* Cap on the clock of a session, in timer ticks.
MaxNow == 2

\* Cap on the delay one Limiter::consume returns, in timer ticks.
MaxDelay == 1

\* Cap on the bytes one read or write moves, and on the bytes a caller has
\* already filled into the ReadBuf it hands to poll_read.
MaxChunk == 2

\* Cap on the session's byte counters.
MaxCount == 4

\* The delays Limiter::consume may hand a session: the limiter is shared by the
\* user's sessions and reads the clock, so a session sees zero or a delay.
Durations == 0..MaxDelay

\* What a poll of the inner stream or socket returns: Pending, Ready(Err), or
\* Ready(Ok) having moved n bytes.
IoResults(max) ==
  {[kind |-> "pending", n |-> 0], [kind |-> "err", n |-> 0]} \cup
  {[kind |-> "ok", n |-> i] : i \in 0..max}

\* UserContext::into_session at time 0: zero counters and time::sleep(ZERO),
\* which is not registered with the timer until it is polled or reset. taken and
\* sent are history: the bytes the inner stream took from the client and wrote
\* to it. op, ret are the last operation on the session and what it returned.
\* payload is the length of the request payload, up the number of its bytes
\* that the upstream socket has accepted, wr the state of the write of it.
into_session(cmd) ==
  [cmd |-> cmd, pc |-> "new", tx |-> 0, rx |-> 0, itx |-> 0, irx |-> 0,
   now |-> 0, deadline |-> 0, registered |-> FALSE, fired |-> FALSE,
   taken |-> 0, sent |-> 0, op |-> "", ret |-> "",
   payload |-> 0, up |-> 0, wr |-> "todo"]

\* Sleep::is_elapsed: the timer fired and was not reset since.
is_elapsed(m) == m.fired

\* Mutant of PauseReady: the pause is never waited for.
PauseReady_Always(m) == TRUE

\* UserSessionContext::poll_pause is Ready: Sleep::poll.
PauseReady(m) == m.fired \/ m.now >= m.deadline

\* The session after poll_pause: the sleep is registered, and has fired when
\* the poll was Ready.
poll_pause(m) == [m EXCEPT !.registered = TRUE, !.fired = PauseReady(m)]

\* UserSessionContext::consume_limiter, the limiter having returned dur.
consume_limiter(m, dur) ==
  IF dur = 0 THEN m
  ELSE [m EXCEPT !.deadline = IF is_elapsed(m) THEN m.now + dur ELSE m.deadline + dur,
                 !.registered = TRUE, !.fired = FALSE]

\* UserSessionContext::consume_tx.
consume_tx(m, bytes, dur) ==
  consume_limiter([m EXCEPT !.itx = fetch_add(@, bytes), !.tx = @ + bytes], dur)

\* UserSessionContext::consume_rx.
consume_rx(m, bytes, dur) ==
  consume_limiter([m EXCEPT !.irx = fetch_add(@, bytes), !.rx = @ + bytes], dur)

MeterFrame ==
  UNCHANGED <<users, running, cpc, data, cidx, ltx, conns, admitted, sess, lim, logged, rw, codec>>

\* The clock advances.
Tick ==
  /\ meter.pc \notin {"none", "closed"}
  /\ meter.now < MaxNow
  /\ meter' = [meter EXCEPT !.now = @ + 1, !.op = "tick", !.ret = ""]
  /\ UNCHANGED udp
  /\ MeterFrame

\* The timer driver fires the registered sleep whose deadline has passed.
TimerFire ==
  /\ meter.pc \notin {"none", "closed"}
  /\ meter.registered /\ ~meter.fired
  /\ meter.now >= meter.deadline
  /\ meter' = [meter EXCEPT !.fired = TRUE, !.op = "fire", !.ret = ""]
  /\ UNCHANGED udp
  /\ MeterFrame

\* TcpSession::run (server/session.rs), first statement:
\* consume_tx(self.payload.len()).
TcpRun(payload, dur) ==
  /\ meter.pc = "new"
  /\ meter.cmd = "Connect"
  /\ meter' = [consume_tx(meter, payload, dur) EXCEPT
                 !.taken = @ + payload, !.payload = payload,
                 !.pc = "join", !.op = "payload", !.ret = ""]
  /\ UNCHANGED udp
  /\ MeterFrame

\* Mutant of WriteOnce: the write goes on until the whole buffer is accepted
\* (write_all).
WriteOnce_All(len, n) == len

\* AsyncWriteExt::write of a buffer of len bytes, the socket accepting n at the
\* first poll_write that is Ready(Ok): the number of bytes the socket has got
\* when the future returns.
WriteOnce(len, n) == n

\* TcpSession::run (server/session.rs): join!(poll_fn(poll_pause),
\* socket.write(payload)) is polled; io is what the write returns if it has
\* not returned yet. The copy starts once the pause is over and the write has
\* returned Ok; run returns the error of the write once both have returned.
TcpJoin(io) ==
  /\ meter.cmd = "Connect"
  /\ meter.pc = "join"
  /\ io.n <= meter.payload
  /\ io.kind = "ok" /\ meter.payload > 0 => io.n >= 1
  /\ LET wr == IF meter.wr # "todo" \/ io.kind = "pending" THEN meter.wr ELSE io.kind
         up == IF meter.wr = "todo" /\ io.kind = "ok"
                 THEN WriteOnce(meter.payload, io.n) ELSE meter.up
     IN meter' = [poll_pause(meter) EXCEPT
                    !.wr = wr, !.up = up,
                    !.pc = IF ~PauseReady(meter) \/ wr = "todo" THEN "join"
                           ELSE IF wr = "ok" THEN "relay" ELSE "closed",
                    !.op = "join",
                    !.ret = IF ~PauseReady(meter) \/ wr = "todo" THEN "pending"
                            ELSE IF wr = "ok" THEN "ready" ELSE "err"]
  /\ UNCHANGED udp
  /\ MeterFrame

\* TcpSession::run (session/mod.rs) up to the copy: a payload that is not
\* empty is written with one write, which returns io, and the bytes it
\* accepted are counted.
SessionTcpRun(payload, io, dur) ==
  /\ meter.pc = "new"
  /\ meter.cmd = "Connect"
  /\ io.kind # "pending"
  /\ io.n <= payload
  /\ IF payload = 0 THEN io.kind = "ok" ELSE io.kind = "ok" => io.n >= 1
  /\ meter' =
       IF payload = 0
         THEN [meter EXCEPT !.pc = "relay", !.op = "payload", !.ret = "ready"]
       ELSE IF io.kind = "err"
         THEN [meter EXCEPT !.taken = @ + payload, !.payload = payload, !.wr = "err",
                            !.pc = "closed", !.op = "payload", !.ret = "err"]
       ELSE [consume_tx(meter, io.n, dur) EXCEPT
               !.taken = @ + payload, !.payload = payload, !.wr = "ok",
               !.up = WriteOnce(payload, io.n),
               !.pc = "relay", !.op = "payload", !.ret = "ready"]
  /\ UNCHANGED udp
  /\ MeterFrame

\* Mutant of ReadCounted: only the bytes the read added are counted.
ReadCounted_Delta(filled, n) == n

\* StreamWrapper::poll_read: what it hands consume_tx, buf.filled().len(), for
\* a ReadBuf that came with filled bytes and to which the read added n.
ReadCounted(filled, n) == filled + n

\* StreamWrapper::poll_read on a ReadBuf that holds filled bytes; the inner
\* stream returns io and the limiter dur.
PollRead(filled, io, dur) ==
  /\ meter.cmd = "Connect"
  /\ meter.pc = "relay"
  /\ meter.tx + filled + io.n <= MaxCount
  /\ LET m == poll_pause(meter) IN
       meter' =
         IF ~PauseReady(meter) THEN [m EXCEPT !.op = "read", !.ret = "pending"]
         ELSE IF io.kind = "pending" THEN [m EXCEPT !.op = "read", !.ret = "pending"]
         ELSE IF io.kind = "err" THEN [m EXCEPT !.op = "read", !.ret = "err", !.pc = "closed"]
         ELSE [consume_tx([m EXCEPT !.taken = @ + io.n], ReadCounted(filled, io.n), dur)
                 EXCEPT !.op = "read", !.ret = "ready"]
  /\ UNCHANGED udp
  /\ MeterFrame

\* StreamWrapper::poll_write (and poll_write_vectored) of len bytes; the inner
\* stream returns io and the limiter dur.
PollWrite(len, io, dur) ==
  /\ meter.cmd = "Connect"
  /\ meter.pc = "relay"
  /\ io.n <= len
  /\ io.kind = "ok" => io.n >= 1
  /\ meter.rx + io.n <= MaxCount
  /\ LET m == poll_pause(meter) IN
       meter' =
         IF ~PauseReady(meter) THEN [m EXCEPT !.op = "write", !.ret = "pending"]
         ELSE IF io.kind = "pending" THEN [m EXCEPT !.op = "write", !.ret = "pending"]
         ELSE IF io.kind = "err" THEN [m EXCEPT !.op = "write", !.ret = "err", !.pc = "closed"]
         ELSE [consume_rx([m EXCEPT !.sent = @ + io.n], io.n, dur)
                 EXCEPT !.op = "write", !.ret = "ready"]
  /\ UNCHANGED udp
  /\ MeterFrame

\* copy_bidirectional returned: both directions are shut down.
RelayClose ==
  /\ meter.cmd = "Connect"
  /\ meter.pc = "relay"
  /\ meter' = [meter EXCEPT !.pc = "closed", !.op = "close", !.ret = ""]
  /\ UNCHANGED udp
  /\ MeterFrame

\* A TCP session whose upstream socket is open.
InitMeter ==
  /\ Init!1 /\ Init!2 /\ Init!3 /\ Init!4 /\ Init!5 /\ Init!6 /\ Init!7 /\ Init!8
  /\ sess = NoSess
  /\ meter = into_session("Connect")
  /\ lim = NoLim
  /\ udp = NoUdp
  /\ logged = {}
  /\ rw = NoRw
  /\ codec = NoCodec

NextMeter ==
  \/ Tick
  \/ TimerFire
  \/ \E payload \in 0..MaxChunk, dur \in Durations : TcpRun(payload, dur)
  \/ \E io \in IoResults(MaxChunk) : TcpJoin(io)
  \/ \E payload \in 0..MaxChunk, io \in IoResults(MaxChunk), dur \in Durations :
       SessionTcpRun(payload, io, dur)
  \/ \E filled \in 0..MaxChunk, io \in IoResults(MaxChunk), dur \in Durations :
       PollRead(filled, io, dur)
  \/ \E len \in 1..MaxChunk, io \in IoResults(MaxChunk), dur \in Durations :
       PollWrite(len, io, dur)
  \/ RelayClose

SpecMeter == InitMeter /\ [][NextMeter]_vars

\* ------------------------------------------------- the pause of one session

\* One session and its Sleep: the clock, the timer driver, polls of the pause
\* and calls of consume_tx in any order. lim.ret is the delay the limiter
\* returned to the last call.
SleepFrame ==
  UNCHANGED <<users, running, cpc, data, cidx, ltx, conns, admitted, sess, udp, logged,
              rw, codec>>

\* poll_fn(|cx| ctx.poll_pause(cx)) is polled once.
SleepPoll ==
  /\ meter.pc = "new"
  /\ meter' = [poll_pause(meter) EXCEPT
                 !.op = "pause", !.ret = IF PauseReady(meter) THEN "ready" ELSE "pending"]
  /\ UNCHANGED lim
  /\ SleepFrame

\* consume_tx of one byte, the limiter returning dur.
SleepConsume(dur) ==
  /\ meter.pc = "new"
  /\ meter.tx < MaxCount
  /\ meter' = [consume_tx(meter, 1, dur) EXCEPT !.op = "consume", !.ret = ""]
  /\ lim' = [pc |-> "returned", ret |-> dur]
  /\ SleepFrame

InitSleep ==
  /\ Init!1 /\ Init!2 /\ Init!3 /\ Init!4 /\ Init!5 /\ Init!6 /\ Init!7 /\ Init!8
  /\ sess = NoSess
  /\ meter = into_session("Connect")
  /\ lim = NoLim
  /\ udp = NoUdp
  /\ logged = {}
  /\ rw = NoRw
  /\ codec = NoCodec

NextSleep ==
  \/ Tick
  \/ TimerFire
  \/ SleepPoll
  \/ \E dur \in Durations : SleepConsume(dur)

SpecSleep == InitSleep /\ [][NextSleep]_vars

\* ------------------------------------------ UDP over the tunnel: UdpPacketBuf

\* The per-datagram cap of the UDP relay, in bytes.
PAYLOAD_LEN == 8192

\* The bytes of the UDP framing, in units. An address is its type byte and one
\* unit for the rest (host and port, or length, name and port); the length field
\* and the separator are one unit each; a payload is made of single bytes "b" and
\* of runs "K" of 8191 bytes, so that payloads of 1, 8192 and 8193 bytes exist.
UnitSize ==
  [ip4 |-> 1, dom |-> 1, bad |-> 1, h1 |-> 6, h2 |-> 6, n1 |-> 4, nX |-> 4,
   len1 |-> 2, len8192 |-> 2, len8193 |-> 2, crlf |-> 2, xx |-> 2, b |-> 1, K |-> 8191]

\* The value of a length field.
LenUnits == [len1 |-> 1, len8192 |-> 8192, len8193 |-> 8193]

LenOf(u) == IF u \in DOMAIN LenUnits THEN LenUnits[u] ELSE 0

\* The number of bytes of a string of units.
RECURSIVE ByteLen(_)
ByteLen(bytes) == IF bytes = <<>> THEN 0 ELSE UnitSize[Head(bytes)] + ByteLen(Tail(bytes))

\* The payload of n bytes.
PayloadOf(n) ==
  CASE n = 1 -> <<"b">>
    [] n = 8192 -> <<"K", "b">>
    [] n = 8193 -> <<"K", "b", "b">>
    [] OTHER -> <<>>

\* UdpPacketInner::as_bytes: address, length, CRLF, payload.
Frame(addr, lenUnit) == addr \o <<lenUnit, "crlf">> \o PayloadOf(LenOf(lenUnit))

\* AddressInner::from_assemble_bytes: the type byte selects the form; the rest
\* of the address must be buffered; a name must be UTF-8 ("nX" is not).
from_assemble_bytes(bytes) ==
  IF bytes = <<>> THEN [res |-> "notready", addr |-> <<>>]
  ELSE IF bytes[1] \notin {"ip4", "dom"} THEN [res |-> "protocol", addr |-> <<>>]
  ELSE IF Len(bytes) < 2 THEN [res |-> "notready", addr |-> <<>>]
  ELSE IF bytes[1] = "dom" /\ bytes[2] = "nX" THEN [res |-> "protocol", addr |-> <<>>]
  ELSE [res |-> "ok", addr |-> SubSeq(bytes, 1, 2)]

\* The units of bytes from index from on that make up n bytes.
RECURSIVE TakeBytes(_, _, _)
TakeBytes(bytes, from, n) ==
  IF n <= 0 \/ from > Len(bytes) THEN <<>>
  ELSE <<bytes[from]>> \o TakeBytes(bytes, from + 1, n - UnitSize[bytes[from]])

NoPacket == [res |-> "notready", addr |-> <<>>, payload |-> <<>>, size |-> 0, raw |-> <<>>]

\* UdpPacketInner::from_bytes (size is UdpPacketInner::size in units, raw the
\* bytes of the packet): NotReady until the address, the length field and
\* separator plus payload of the stated length are all buffered; only then is
\* the separator compared with CRLF.
UdpFromBytes(bytes) ==
  LET a == from_assemble_bytes(bytes) IN
  IF a.res # "ok" THEN [NoPacket EXCEPT !.res = a.res]
  ELSE IF Len(bytes) < 3 THEN NoPacket
  ELSE LET len == LenOf(bytes[3])
           rest == SubSeq(bytes, 4, Len(bytes))
       IN IF ByteLen(rest) < 2 + len THEN NoPacket
          ELSE IF bytes[4] # "crlf" THEN [NoPacket EXCEPT !.res = "protocol"]
          ELSE LET payload == TakeBytes(bytes, 5, len) IN
               [res |-> "ok", addr |-> a.addr, payload |-> payload,
                size |-> 4 + Len(payload), raw |-> SubSeq(bytes, 1, 4 + Len(payload))]

\* UdpPacketBuf::init.
UdpPacketBufInit(bytes) == [buf |-> bytes, packet |-> NoneV]

\* UdpPacketBuf::write.
BufWrite(pb, bytes) == [pb EXCEPT !.buf = @ \o bytes]

\* Mutant of process_new_packet: the last byte of the packet returned before
\* stays in the buffer.
process_new_packet_OffByOne(pb) ==
  LET kept == IF pb.packet # NoneV
                THEN SubSeq(pb.buf, pb.packet[1].size, Len(pb.buf))
                ELSE pb.buf
      r == UdpFromBytes(kept)
  IN [ok |-> r.res # "protocol",
      pb |-> [buf |-> kept, packet |-> IF r.res = "ok" THEN Some(r) ELSE NoneV]]

\* Mutant of process_new_packet: a Protocol verdict of the parser is treated
\* like NotReady.
process_new_packet_Lenient(pb) ==
  LET kept == IF pb.packet # NoneV
                THEN SubSeq(pb.buf, pb.packet[1].size + 1, Len(pb.buf))
                ELSE pb.buf
      r == UdpFromBytes(kept)
  IN [ok |-> TRUE,
      pb |-> [buf |-> kept, packet |-> IF r.res = "ok" THEN Some(r) ELSE NoneV]]

\* UdpPacketBuf::process_new_packet: drop the bytes of the packet returned
\* before, then parse at the start of the buffer. ok is FALSE for Err.
process_new_packet(pb) ==
  LET kept == IF pb.packet # NoneV
                THEN SubSeq(pb.buf, pb.packet[1].size + 1, Len(pb.buf))
                ELSE pb.buf
      r == UdpFromBytes(kept)
  IN [ok |-> r.res # "protocol",
      pb |-> [buf |-> kept, packet |-> IF r.res = "ok" THEN Some(r) ELSE NoneV]]

\* --------------------------------------------------- the UDP relay session

\* Cap on the number of well-formed packets of a client's byte stream.
MaxPackets == 2

\* Cap on the number of units one read of the tunnel returns.
MaxRead == 3

\* Cap on the number of datagrams the upstream sends back.
MaxUp == 1

\* The packets a client sends: to the request's address with 1 byte, to another
\* address with exactly PAYLOAD_LEN bytes, to a name with one byte more.
WfPackets ==
  {Frame(<<"ip4", "h1">>, "len1"), Frame(<<"ip4", "h2">>, "len8192"),
   Frame(<<"dom", "n1">>, "len8193")}

\* Malformed packets: unknown address type, a name that is not UTF-8, a
\* separator that is not CRLF.
BadPackets ==
  {<<"bad", "h1", "len1", "crlf", "b">>, <<"dom", "nX", "len1", "crlf", "b">>,
   <<"ip4", "h1", "len1", "xx", "b">>}

\* The byte streams of at most n well-formed packets.
RECURSIVE WfStreams(_)
WfStreams(n) ==
  IF n = 0 THEN {<<>>}
  ELSE WfStreams(n - 1) \cup {w \o q : w \in WfStreams(n - 1), q \in WfPackets}

\* What a client may send on the tunnel after the request header.
Streams ==
  WfStreams(MaxPackets) \cup
  {w \o m \o t : w \in WfStreams(1), m \in BadPackets,
                 t \in {<<>>, Frame(<<"ip4", "h1">>, "len1")}}

\* The packets framed in a well-formed byte stream, in order.
RECURSIVE Packets(_)
Packets(bytes) ==
  LET r == UdpFromBytes(bytes) IN
  IF r.res # "ok" THEN <<>>
  ELSE <<r>> \o Packets(SubSeq(bytes, r.size + 1, Len(bytes)))

\* The bytes of a sequence of packets.
RECURSIVE Flatten(_)
Flatten(ps) ==
  IF ps = <<>> THEN <<>>
  ELSE Head(ps).raw \o Flatten(Tail(ps))

\* The datagram (and frame) sizes of the model.
FrameSize(addr, n) == ByteLen(addr) + 2 + 2 + n

\* UdpSession::new (server/session.rs: "poll") and UdpSession::new of
\* session/mod.rs ("chan", before its first statement): the socket is open, the
\* reassembler holds the request payload, the first init units of stream.
\* tunnel: what the client has yet to send. out: the packets taken from the
\* reassembler so far. sentdg: the datagrams sent, each with the address it went
\* to and the address its packet carried. queue: the channel to the sender task.
\* status "protocol": run returned the ProtocolError of the reassembler; status
\* "error": it returned an I/O error.
NewUdp(variant, stream, init) ==
  [variant |-> variant, status |-> "new", dest |-> <<"ip4", "h1">>,
   pb |-> IF variant = "poll" THEN UdpPacketBufInit(SubSeq(stream, 1, init))
                              ELSE UdpPacketBufInit(<<>>),
   payload |-> SubSeq(stream, 1, init),
   stream |-> stream, tunnel |-> SubSeq(stream, init + 1, Len(stream)),
   out |-> <<>>, sentdg |-> <<>>, queue |-> <<>>,
   frame |-> 0, frames |-> 0, up |-> MaxUp]

UdpFrame ==
  UNCHANGED <<users, running, cpc, data, cidx, ltx, conns, admitted, sess, lim, logged, rw, codec>>

\* A datagram for packet p sent on a socket whose peer is peer.
Datagram(peer, p) == [to |-> peer, own |-> p.addr, size |-> ByteLen(p.payload)]

\* Mutant of UdpRun: the first state is Recv also when the request payload
\* held a packet.
UdpRun_Recv ==
  /\ udp.status = "new" /\ udp.variant = "poll"
  /\ LET r == process_new_packet(udp.pb) IN
       udp' = [udp EXCEPT !.pb = r.pb,
                          !.status = IF ~r.ok THEN "protocol" ELSE "Recv"]
  /\ meter' = [meter EXCEPT !.pc = "relay", !.op = "run", !.ret = ""]
  /\ UdpFrame

\* UdpSession::run (server/session.rs) up to the first poll: parse the request
\* payload and choose the first state.
UdpRun ==
  /\ udp.status = "new" /\ udp.variant = "poll"
  /\ LET r == process_new_packet(udp.pb) IN
       udp' = [udp EXCEPT !.pb = r.pb,
                          !.status = IF ~r.ok THEN "protocol"
                                     ELSE IF r.pb.packet # NoneV THEN "UdpSend" ELSE "Recv"]
  /\ meter' = [meter EXCEPT !.pc = "relay", !.op = "run", !.ret = ""]
  /\ UdpFrame

\* Recv while the pause is pending: ready!(poll_pause) returns Pending.
RecvPaused ==
  /\ udp.status = "Recv"
  /\ ~PauseReady(meter)
  /\ meter' = [poll_pause(meter) EXCEPT !.op = "recv", !.ret = "pending"]
  /\ UNCHANGED udp
  /\ UdpFrame

\* Recv: the tunnel read returned the next n units.
RecvTunnel(n) ==
  /\ udp.status = "Recv"
  /\ PauseReady(meter)
  /\ n \in 1..Len(udp.tunnel)
  /\ ByteLen(SubSeq(udp.tunnel, 1, n)) <= PAYLOAD_LEN
  /\ LET r == process_new_packet(BufWrite(udp.pb, SubSeq(udp.tunnel, 1, n))) IN
       udp' = [udp EXCEPT !.pb = r.pb, !.tunnel = SubSeq(@, n + 1, Len(@)),
                          !.status = IF r.ok THEN "UdpSend" ELSE "protocol"]
  /\ meter' = [poll_pause(meter) EXCEPT !.op = "recv", !.ret = "ready"]
  /\ UdpFrame

\* Recv: the tunnel read returned no byte, the client has finished.
RecvEof ==
  /\ udp.status = "Recv"
  /\ PauseReady(meter)
  /\ udp.tunnel = <<>>
  /\ udp' = [udp EXCEPT !.status = "Shutdown"]
  /\ meter' = [poll_pause(meter) EXCEPT !.op = "recv", !.ret = "ready"]
  /\ UdpFrame

\* Recv: the tunnel read or the socket's recv failed.
RecvError ==
  /\ udp.status = "Recv"
  /\ PauseReady(meter)
  /\ udp' = [udp EXCEPT !.status = "error"]
  /\ meter' = [poll_pause(meter) EXCEPT !.op = "recv", !.ret = "err"]
  /\ UdpFrame

\* Recv: the tunnel read is pending and the socket has a datagram of 1 byte: it
\* is framed with the request's address.
RecvDatagram ==
  /\ udp.status = "Recv"
  /\ PauseReady(meter)
  /\ udp.up > 0
  /\ udp' = [udp EXCEPT !.up = @ - 1, !.frame = FrameSize(udp.dest, 1),
                        !.status = "StreamSend"]
  /\ meter' = [poll_pause(meter) EXCEPT !.op = "recv", !.ret = "ready"]
  /\ UdpFrame

\* Recv: both the tunnel read and the socket's recv are pending.
RecvPending ==
  /\ udp.status = "Recv"
  /\ PauseReady(meter)
  /\ meter' = [poll_pause(meter) EXCEPT !.op = "recv", !.ret = "pending"]
  /\ UNCHANGED udp
  /\ UdpFrame

\* UdpSend: p.payload().len() <= PAYLOAD_LEN.
Sendable(payload) == ByteLen(payload) <= PAYLOAD_LEN

\* UdpSend with a packet: send it on the connected socket if it is not
\* oversize, count the bytes sent, then parse the next packet. io is what
\* poll_send returns, dur what the limiter returns.
UdpSendPacket(io, dur) ==
  /\ udp.status = "UdpSend"
  /\ udp.pb.packet # NoneV
  /\ LET p == udp.pb.packet[1]
         r == process_new_packet(udp.pb)
         next == [udp EXCEPT !.pb = r.pb, !.out = Append(@, p),
                             !.status = IF r.ok THEN "UdpSend" ELSE "protocol"]
     IN IF ~Sendable(p.payload)
          THEN /\ io = "ok"
               /\ udp' = next
               /\ meter' = [meter EXCEPT !.op = "udpsend", !.ret = "ready"]
        ELSE IF io = "pending"
          THEN /\ UNCHANGED udp
               /\ meter' = [meter EXCEPT !.op = "udpsend", !.ret = "pending"]
        ELSE IF io = "err"
          THEN /\ udp' = [udp EXCEPT !.status = "error"]
               /\ meter' = [meter EXCEPT !.op = "udpsend", !.ret = "err"]
        ELSE /\ udp' = [next EXCEPT !.sentdg = Append(@, Datagram(udp.dest, p))]
             /\ meter' = [consume_tx(meter, ByteLen(p.payload), dur)
                            EXCEPT !.op = "udpsend", !.ret = "ready"]
  /\ UdpFrame

\* Mutant of UdpSendNone: back to Recv with a packet still held.
UdpSendNone_Always ==
  /\ udp.status = "UdpSend"
  /\ udp' = [udp EXCEPT !.status = "Recv"]
  /\ meter' = [meter EXCEPT !.op = "udpsend", !.ret = "ready"]
  /\ UdpFrame

\* UdpSend with no packet: back to Recv.
UdpSendNone ==
  /\ udp.status = "UdpSend"
  /\ udp.pb.packet = NoneV
  /\ udp' = [udp EXCEPT !.status = "Recv"]
  /\ meter' = [meter EXCEPT !.op = "udpsend", !.ret = "ready"]
  /\ UdpFrame

\* StreamSend: one poll_write of the frame; it returned Pending, an error, or
\* wrote n bytes, which are counted; then Recv.
StreamSend(io, n, dur) ==
  /\ udp.status = "StreamSend"
  /\ n \in {1, udp.frame}
  /\ IF io = "pending"
       THEN /\ UNCHANGED udp
            /\ meter' = [meter EXCEPT !.op = "streamsend", !.ret = "pending"]
     ELSE IF io = "err"
       THEN /\ udp' = [udp EXCEPT !.status = "error"]
            /\ meter' = [meter EXCEPT !.op = "streamsend", !.ret = "err"]
     ELSE /\ udp' = [udp EXCEPT !.status = "Recv", !.frames = @ + 1, !.frame = 0]
          /\ meter' = [consume_rx([meter EXCEPT !.sent = @ + n], n, dur)
                         EXCEPT !.op = "streamsend", !.ret = "ready"]
  /\ UdpFrame

\* Mutant of UdpShutdown: poll_shutdown is always Pending.
UdpShutdown_Pending(io) ==
  /\ udp.status = "Shutdown"
  /\ UNCHANGED udp
  /\ meter' = [meter EXCEPT !.op = "shutdown", !.ret = "pending"]
  /\ UdpFrame

\* Shutdown: ready!(poll_shutdown)? of the tunnel, which returns io; Ready(Ok)
\* ends the relay with Ok(()).
UdpShutdown(io) ==
  /\ udp.status = "Shutdown"
  /\ IF io = "pending"
       THEN /\ UNCHANGED udp
            /\ meter' = [meter EXCEPT !.op = "shutdown", !.ret = "pending"]
     ELSE IF io = "err"
       THEN /\ udp' = [udp EXCEPT !.status = "error"]
            /\ meter' = [meter EXCEPT !.op = "shutdown", !.ret = "err"]
     ELSE /\ udp' = [udp EXCEPT !.status = "done"]
          /\ meter' = [meter EXCEPT !.pc = "closed", !.op = "shutdown", !.ret = "ready"]
  /\ UdpFrame

\* ------------------------- the UDP relay of session/mod.rs (channel variant)

\* session/mod.rs, UdpSession::run: p.payload.len() < PAYLOAD_LEN.
ChanSendable(payload) == ByteLen(payload) < PAYLOAD_LEN

\* UdpSession::new of session/mod.rs, the loop over the packets of the request
\* payload: each is sent to its own address, then the next is parsed.
RECURSIVE NewDrain(_)
NewDrain(u) ==
  IF u.pb.packet = NoneV THEN u
  ELSE LET p == u.pb.packet[1]
           r == process_new_packet(u.pb)
           v == [u EXCEPT !.pb = r.pb, !.out = Append(@, p),
                          !.sentdg = Append(@, Datagram(p.addr, p))]
       IN IF r.ok THEN NewDrain(v) ELSE [v EXCEPT !.status = "protocol"]

\* UdpSession::new of session/mod.rs.
ChanNew ==
  /\ udp.status = "new" /\ udp.variant = "chan"
  /\ LET r == process_new_packet(BufWrite(udp.pb, udp.payload)) IN
       udp' = IF ~r.ok THEN [udp EXCEPT !.pb = r.pb, !.status = "protocol"]
              ELSE NewDrain([udp EXCEPT !.pb = r.pb, !.status = "select"])
  /\ meter' = [meter EXCEPT !.pc = "relay", !.op = "run", !.ret = ""]
  /\ UdpFrame

\* UdpSession::run of session/mod.rs, the loop over the packets after a read:
\* a packet under the cap is counted and handed to the sender task. st is the
\* pair of the relay and the session context.
RECURSIVE ChanDrain(_, _)
ChanDrain(st, dur) ==
  IF st.u.pb.packet = NoneV THEN st
  ELSE LET p == st.u.pb.packet[1]
           r == process_new_packet(st.u.pb)
           ok == ChanSendable(p.payload)
           v == [u |-> [st.u EXCEPT !.pb = r.pb, !.out = Append(@, p),
                                    !.queue = IF ok THEN Append(@, Datagram(p.addr, p)) ELSE @],
                 m |-> IF ok THEN consume_tx(st.m, ByteLen(p.payload), dur) ELSE st.m]
       IN IF r.ok THEN ChanDrain(v, dur) ELSE [v EXCEPT !.u.status = "protocol"]

\* UdpSession::run of session/mod.rs: the tunnel read returned the next n units.
ChanRead(n, dur) ==
  /\ udp.status = "select"
  /\ n \in 1..Len(udp.tunnel)
  /\ LET r == process_new_packet(BufWrite(udp.pb, SubSeq(udp.tunnel, 1, n)))
         u == [udp EXCEPT !.pb = r.pb, !.tunnel = SubSeq(@, n + 1, Len(@))]
         st == IF r.ok THEN ChanDrain([u |-> [u EXCEPT !.status = "pause"], m |-> meter], dur)
               ELSE [u |-> [u EXCEPT !.status = "protocol"], m |-> meter]
     IN /\ udp' = st.u
        /\ meter' = [st.m EXCEPT !.op = "chanread", !.ret = "ready"]
  /\ UdpFrame

\* The tunnel read returned no byte (break) or failed.
ChanEnd(failed) ==
  /\ udp.status = "select"
  /\ ~failed => udp.tunnel = <<>>
  /\ udp' = [udp EXCEPT !.status = IF failed THEN "error" ELSE "done"]
  /\ meter' = [meter EXCEPT !.op = "chanread", !.ret = IF failed THEN "err" ELSE "ready"]
  /\ UdpFrame

\* The receiver task handed over a datagram of 1 byte: write_all of its frame,
\* then consume_rx of the frame's length.
ChanDatagram(dur) ==
  /\ udp.status = "select"
  /\ udp.up > 0
  /\ udp' = [udp EXCEPT !.up = @ - 1, !.frames = @ + 1, !.status = "pause"]
  /\ meter' = [consume_rx([meter EXCEPT !.sent = @ + FrameSize(udp.dest, 1)],
                          FrameSize(udp.dest, 1), dur)
                 EXCEPT !.op = "chanwrite", !.ret = "ready"]
  /\ UdpFrame

\* poll_fn(poll_pause).await at the end of each turn of the loop.
ChanPause ==
  /\ udp.status = "pause"
  /\ udp' = [udp EXCEPT !.status = IF PauseReady(meter) THEN "select" ELSE "pause"]
  /\ meter' = [poll_pause(meter) EXCEPT
                 !.op = "pause", !.ret = IF PauseReady(meter) THEN "ready" ELSE "pending"]
  /\ UdpFrame

\* The sender task takes a datagram from the channel and sends it.
ChanTaskSend ==
  /\ udp.variant = "chan"
  /\ udp.queue # <<>>
  /\ udp' = [udp EXCEPT !.queue = Tail(@), !.sentdg = Append(@, Head(udp.queue))]
  /\ meter' = [meter EXCEPT !.op = "tasksend", !.ret = ""]
  /\ UdpFrame

\* A UDP session of either variant, the request carrying the first init units
\* of what the client sends.
InitUdp ==
  /\ Init!1 /\ Init!2 /\ Init!3 /\ Init!4 /\ Init!5 /\ Init!6 /\ Init!7 /\ Init!8
  /\ sess = NoSess
  /\ meter = into_session("UdpAssociate")
  /\ lim = NoLim
  /\ \E variant \in {"poll", "chan"}, stream \in Streams :
       \E init \in 0..Len(stream) : udp = NewUdp(variant, stream, init)
  /\ logged = {}
  /\ rw = NoRw
  /\ codec = NoCodec

IoKinds == {"ok", "pending", "err"}

NextUdp ==
  \/ Tick
  \/ TimerFire
  \/ UdpRun
  \/ RecvPaused
  \/ \E n \in 1..MaxRead : RecvTunnel(n)
  \/ RecvEof
  \/ RecvError
  \/ RecvDatagram
  \/ RecvPending
  \/ \E io \in IoKinds, dur \in Durations : UdpSendPacket(io, dur)
  \/ UdpSendNone
  \/ \E io \in IoKinds, n \in 1..FrameSize(<<"ip4", "h1">>, 1), dur \in Durations :
       StreamSend(io, n, dur)
  \/ \E io \in IoKinds : UdpShutdown(io)
  \/ ChanNew
  \/ \E n \in 1..MaxRead, dur \in Durations : ChanRead(n, dur)
  \/ \E failed \in BOOLEAN : ChanEnd(failed)
  \/ \E dur \in Durations : ChanDatagram(dur)
  \/ ChanPause
  \/ ChanTaskSend

SpecUdp == InitUdp /\ [][NextUdp]_vars

\* The runtime polls the relay again when the tunnel is ready, and a shutdown
\* of the tunnel returns.
SpecUdpFair == SpecUdp /\ WF_vars(\E io \in IoKinds : UdpShutdown(io))

\* ------------------------- the relay under a client that sends without pause

\* The client sends the next packet, one over the cap, as soon as the relay has
\* taken the last: the tunnel read of the relay is never Pending. The record of
\* the packets taken so far is dropped, it has no end.
ClientSends ==
  /\ udp.variant = "poll"
  /\ udp.status \notin {"new", "done", "protocol", "error"}
  /\ udp.tunnel = <<>>
  /\ udp' = [udp EXCEPT !.tunnel = Frame(<<"dom", "n1">>, "len8193"), !.out = <<>>]
  /\ meter' = [meter EXCEPT !.op = "client", !.ret = ""]
  /\ UdpFrame

\* The steps of the relay of server/session.rs while the tunnel has bytes:
\* poll_recv of the socket is reached only when the tunnel read is Pending
\* (lines 145-161), which it is when the client has sent nothing more. A pause
\* of the limiter ends within the time the clock counts.
BusyRelayStep ==
  \/ UdpRun
  \/ RecvPaused
  \/ \E n \in 1..MaxRead : RecvTunnel(n)
  \/ RecvError
  \/ udp.tunnel = <<>> /\ RecvDatagram
  \/ udp.tunnel = <<>> /\ RecvPending
  \/ \E io \in IoKinds, dur \in Durations :
       UdpSendPacket(io, dur) /\ meter'.deadline <= MaxNow
  \/ UdpSendNone
  \/ \E io \in IoKinds, n \in 1..FrameSize(<<"ip4", "h1">>, 1), dur \in Durations :
       StreamSend(io, n, dur) /\ meter'.deadline <= MaxNow

InitBusy ==
  /\ Init!1 /\ Init!2 /\ Init!3 /\ Init!4 /\ Init!5 /\ Init!6 /\ Init!7 /\ Init!8
  /\ sess = NoSess
  /\ meter = into_session("UdpAssociate")
  /\ lim = NoLim
  /\ \E stream \in WfStreams(1) : \E init \in 0..Len(stream) :
       udp = NewUdp("poll", stream, init)
  /\ logged = {}
  /\ rw = NoRw
  /\ codec = NoCodec

NextBusy ==
  \/ Tick
  \/ TimerFire
  \/ ClientSends
  \/ BusyRelayStep

\* The runtime polls the relay again and again, the clock goes on, and the
\* client goes on sending.
SpecBusy ==
  /\ InitBusy /\ [][NextBusy]_vars
  /\ WF_vars(BusyRelayStep) /\ WF_vars(ClientSends) /\ WF_vars(Tick) /\ WF_vars(TimerFire)

\* A relaying session of either kind: the metered stream of a TCP session or
\* the UDP relay.
InitPause == InitMeter \/ InitUdp

NextPause == NextMeter \/ NextUdp

SpecPause == InitPause /\ [][NextPause]_vars

\* ------------------------------------------------- the token-bucket limiter

\* Bucket::INTERVAL. Time is counted in ticks of INTERVAL (0.2 s) and a rate
\* is a number of bytes per tick.
INTERVAL == 1

\* One second, in ticks of INTERVAL.
Second == 5

\* Cap on the clock of the limiter, on the calls of consume and on the calls of
\* set_speed_limit.
MaxLimNow == 7
MaxCalls == 3
MaxSets == 1

\* The finite rates and the sizes consume is called with.
Rates == {1, 2}
Sizes == {0, 1, 2, 6}

\* f64 values of Bucket::volumn: a finite number or +inf.
Fin(v) == [inf |-> FALSE, v |-> v]
Inf == [inf |-> TRUE, v |-> 0]

\* x > 0.0
FPos(x) == x.inf \/ x.v > 0

\* Duration::ZERO, and a delay of num / den ticks.
ZeroDelay == [zero |-> TRUE, num |-> 0, den |-> 1]
Delay(num, den) == [zero |-> FALSE, num |-> num, den |-> den]

\* Mutant of Bucket_refill: the refilled volume is not capped.
Bucket_refill_NoCap(b, now) ==
  LET elapsed == now - b.updated_at IN
  [b EXCEPT !.volumn = IF b.speed_limit = INFINITY \/ b.volumn.inf THEN Inf
                       ELSE Fin(b.volumn.v + b.speed_limit * elapsed),
            !.updated_at = now]

\* Bucket::refill. With speed_limit +inf the cap is +inf and the sum +inf or
\* NaN, of which f64::min returns +inf.
Bucket_refill(b, now) ==
  LET elapsed == now - b.updated_at
      cap == b.speed_limit * INTERVAL
      sum == b.volumn.v + b.speed_limit * elapsed
  IN [b EXCEPT !.volumn = IF b.speed_limit = INFINITY THEN Inf
                          ELSE IF b.volumn.inf THEN Fin(cap)
                          ELSE Fin(IF sum < cap THEN sum ELSE cap),
               !.updated_at = now]

\* Bucket::consume: the bucket after the call and the Duration returned.
Bucket_consume(b, bytes) ==
  LET vol == IF b.volumn.inf THEN Inf ELSE Fin(b.volumn.v - bytes) IN
  [bucket |-> [b EXCEPT !.volumn = vol],
   ret |-> IF FPos(vol) THEN ZeroDelay
           ELSE IF b.speed_limit = INFINITY THEN Delay(INTERVAL, 1)
           ELSE Delay(INTERVAL * b.speed_limit - vol.v, b.speed_limit)]

\* Limiter::new. locks counts the acquisitions of the bucket mutex; admitted[t]
\* is the sum of the sizes consume was called with at tick t and answered with
\* Duration::ZERO; rate0 and changed: the rate at construction and whether
\* set_speed_limit has been called; pending: the rate a call of
\* set_speed_limit has yet to store.
Limiter_new(speed) ==
  [pc |-> "run",
   is_unlimited |-> (speed = INFINITY),
   bucket |-> [updated_at |-> 0, volumn |-> Fin(0), speed_limit |-> speed],
   now |-> 0, locks |-> 0, calls |-> 0, sets |-> 0,
   op |-> "new", arg |-> 0, ret |-> ZeroDelay,
   admitted |-> [t \in 0..MaxLimNow |-> 0],
   rate0 |-> speed, changed |-> FALSE, pending |-> NoneV]

\* Mutant of Limiter_consume: the unlimited flag is not looked at.
Limiter_consume_AlwaysLock(l, bytes) ==
  LET r == Bucket_consume(Bucket_refill(l.bucket, l.now), bytes) IN
  [l EXCEPT !.bucket = r.bucket, !.ret = r.ret, !.locks = @ + 1]

\* Limiter::consume
Limiter_consume(l, bytes) ==
  IF l.is_unlimited THEN [l EXCEPT !.ret = ZeroDelay]
  ELSE LET r == Bucket_consume(Bucket_refill(l.bucket, l.now), bytes) IN
       [l EXCEPT !.bucket = r.bucket, !.ret = r.ret, !.locks = @ + 1]

LimFrame ==
  UNCHANGED <<users, running, cpc, data, cidx, ltx, conns, admitted, sess, meter, udp, logged, rw, codec>>

\* Instant::now() advances.
LimTick ==
  /\ lim.pc = "run"
  /\ lim.now < MaxLimNow
  /\ lim' = [lim EXCEPT !.now = @ + 1, !.op = "tick"]
  /\ LimFrame

\* A session calls consume(bytes).
LimConsume(bytes) ==
  /\ lim.pc = "run"
  /\ lim.calls < MaxCalls
  /\ LET l == Limiter_consume(lim, bytes) IN
     lim' = [l EXCEPT !.calls = @ + 1, !.op = "consume", !.arg = bytes,
                      !.admitted[lim.now] = IF l.ret.zero THEN @ + bytes ELSE @]
  /\ LimFrame

\* set_speed_limit(f64::INFINITY): the flag is set, the bucket is not touched.
LimSetUnlimited ==
  /\ lim.pc = "run"
  /\ lim.pending = NoneV
  /\ lim.sets < MaxSets
  /\ lim' = [lim EXCEPT !.is_unlimited = TRUE, !.sets = @ + 1, !.changed = TRUE,
                        !.op = "set"]
  /\ LimFrame

\* set_speed_limit(speed), speed finite: the flag is cleared ...
LimSetFlag(speed) ==
  /\ lim.pc = "run"
  /\ lim.pending = NoneV
  /\ lim.sets < MaxSets
  /\ lim' = [lim EXCEPT !.is_unlimited = FALSE, !.sets = @ + 1, !.changed = TRUE,
                        !.pending = Some(speed), !.op = "set"]
  /\ LimFrame

\* ... and then, under the mutex, the rate of the bucket is stored.
LimStoreRate ==
  /\ lim.pc = "run"
  /\ lim.pending # NoneV
  /\ lim' = [lim EXCEPT !.bucket.speed_limit = lim.pending[1], !.locks = @ + 1,
                        !.pending = NoneV, !.op = "store"]
  /\ LimFrame

InitLimiter ==
  /\ Init!1 /\ Init!2 /\ Init!3 /\ Init!4 /\ Init!5 /\ Init!6 /\ Init!7 /\ Init!8
  /\ sess = NoSess
  /\ meter = NoMeter
  /\ lim \in {Limiter_new(s) : s \in Rates \cup {INFINITY}}
  /\ udp = NoUdp
  /\ logged = {}
  /\ rw = NoRw
  /\ codec = NoCodec

NextLimiter ==
  \/ LimTick
  \/ \E bytes \in Sizes : LimConsume(bytes)
  \/ LimSetUnlimited
  \/ \E speed \in Rates : LimSetFlag(speed)
  \/ LimStoreRate

SpecLimiter == InitLimiter /\ [][NextLimiter]_vars

\* ------------------------------------------------ the wire codecs, byte by byte

\* A byte is a number in 0..255. CRLF is b"\r\n".
CRLF == <<13, 10>>

\* The ASCII codes of '0'..'9' and 'a'..'f'.
HexChars == (48..57) \cup (97..102)

\* The length of Password::raw, of its hexadecimal form, and of the part of a
\* request before the address.
RawLen == 28
HexLen == 56
HeadLen == 59

\* Cap on the position of the byte of an encoding that is replaced on the wire,
\* and on the number of bytes cut off its end.
MaxPos == 66
MaxCut == 10

\* u16::to_be_bytes and u16::from_be_bytes.
to_be_bytes(n) == <<n \div 256, n % 256>>
from_be_bytes(b0, b1) == b0 * 256 + b1

\* bytes.get(from - 1..to): the bytes at positions from..to, if all are there.
Get(bytes, from, to) == IF to <= Len(bytes) THEN Some(SubSeq(bytes, from, to)) ELSE NoneV

\* What a build may make of the arm of u8_to_hex that is marked unreachable:
\* the arm before it, or the arm of the digits.
UbChoices == {"letters", "digits"}

\* The match of u8_to_hex on one half byte h; ub decides the arm taken when h
\* is above 0x0f (std::hint::unreachable_unchecked).
HexDigit(h, ub) ==
  IF h <= 9 THEN h + 48
  ELSE IF h <= 15 THEN h + 97 - 10
  ELSE IF ub = "letters" THEN (h + 97 - 10) % 256
  ELSE (h + 48) % 256

\* u8_to_hex: h0 = n >> 4 and h1 = n | 0x0f.
u8_to_hex(n, ub) == <<HexDigit(n \div 16, ub), HexDigit((n \div 16) * 16 + 15, ub)>>

\* Mutant of hex_to_u8: upper-case digits are taken as well.
hex_to_u8_Upper(h0, h1) ==
  LET val(h) == IF h \in 48..57 THEN h - 48
                ELSE IF h \in 97..102 THEN h - 97 + 10
                ELSE IF h \in 65..70 THEN h - 65 + 10
                ELSE -1
  IN IF val(h0) < 0 \/ val(h1) < 0 THEN -1 ELSE val(h0) * 16 + val(h1)

\* hex_to_u8: the byte, or -1 for Err(ProtocolError).
hex_to_u8(h0, h1) ==
  LET val(h) == IF h \in 48..57 THEN h - 48
                ELSE IF h \in 97..102 THEN h - 97 + 10
                ELSE -1
  IN IF val(h0) < 0 \/ val(h1) < 0 THEN -1 ELSE val(h0) * 16 + val(h1)

\* Password::to_hex
to_hex(raw, ub) ==
  [i \in 1..HexLen |-> u8_to_hex(raw[(i + 1) \div 2], ub)[2 - (i % 2)]]

\* Password::from_hex_unchecked: the raw bytes, or NoneV for Err.
from_hex_unchecked(bytes) ==
  LET raw == [i \in 1..RawLen |-> hex_to_u8(bytes[2 * i - 1], bytes[2 * i])] IN
  IF \E i \in 1..RawLen : raw[i] < 0 THEN NoneV ELSE Some(raw)

\* Command::from_byte: the command, or NoneV for Err.
from_byte(byte) ==
  IF byte = 1 THEN Some("Connect")
  ELSE IF byte = 3 THEN Some("UdpAssociate")
  ELSE NoneV

\* self.cmd as u8
CommandByte(cmd) == IF cmd = "Connect" THEN 1 ELSE 3

\* The number of bytes of the UTF-8 sequence that a byte begins; 0 if it
\* begins none.
Utf8Width(byte) ==
  IF byte < 128 THEN 1
  ELSE IF byte \in 194..223 THEN 2
  ELSE IF byte \in 224..239 THEN 3
  ELSE IF byte \in 240..244 THEN 4
  ELSE 0

\* The values the byte after the first byte of a sequence may have.
Utf8Second(byte) ==
  CASE byte = 224 -> 160..191
    [] byte = 237 -> 128..159
    [] byte = 240 -> 144..191
    [] byte = 244 -> 128..143
    [] OTHER -> 128..191

\* std::str::from_utf8 succeeds: every byte outside 0x80..0xbf begins a whole
\* sequence, and every byte inside belongs to the sequence begun before it.
Utf8Valid(b) ==
  \A i \in 1..Len(b) :
    IF b[i] \in 128..191
      THEN \E j \in 1..3 :
             /\ i - j >= 1
             /\ Utf8Width(b[i - j]) > j
             /\ \A k \in (i - j + 1)..(i - 1) : b[k] \in 128..191
      ELSE /\ Utf8Width(b[i]) > 0
           /\ i + Utf8Width(b[i]) - 1 <= Len(b)
           /\ \A k \in (i + 1)..(i + Utf8Width(b[i]) - 1) :
                b[k] \in (IF k = i + 1 THEN Utf8Second(b[i]) ELSE 128..191)

\* An AddressInner: IP(V4), IP(V6) or Name, with the octets of the address or
\* the bytes of the name, and the port.
Addr(kind, host, port) == [kind |-> kind, host |-> host, port |-> port]
NoAddr == Addr("none", <<>>, 0)

\* AddressInner::size
AddressInner_size(a) ==
  CASE a.kind = "v4" -> 7
    [] a.kind = "v6" -> 19
    [] OTHER -> Len(a.host) + 4

\* AddressInner::extend_bytes on an empty buffer, which is AddressInner::as_bytes.
AddressInner_as_bytes(a) ==
  CASE a.kind = "v4" -> <<1>> \o a.host \o to_be_bytes(a.port)
    [] a.kind = "v6" -> <<4>> \o a.host \o to_be_bytes(a.port)
    [] OTHER -> <<3, Len(a.host) % 256>> \o a.host \o to_be_bytes(a.port)

\* Mutant of AddressInner_from_assemble_bytes: the port is read little-endian.
AddressInner_from_assemble_bytes_LittleEndian(bytes) ==
  LET ip(kind, n) ==
        IF Len(bytes) < n + 3 THEN [res |-> "notready", addr |-> NoAddr]
        ELSE [res |-> "ok",
              addr |-> Addr(kind, SubSeq(bytes, 2, n + 1),
                            from_be_bytes(bytes[n + 3], bytes[n + 2]))]
  IN
  IF bytes = <<>> THEN [res |-> "notready", addr |-> NoAddr]
  ELSE IF bytes[1] = 1 THEN ip("v4", 4)
  ELSE IF bytes[1] = 4 THEN ip("v6", 16)
  ELSE IF bytes[1] = 3 THEN
    IF Len(bytes) < 2 \/ Len(bytes) < bytes[2] + 4
      THEN [res |-> "notready", addr |-> NoAddr]
    ELSE IF ~Utf8Valid(SubSeq(bytes, 3, bytes[2] + 2))
      THEN [res |-> "protocol", addr |-> NoAddr]
    ELSE [res |-> "ok",
          addr |-> Addr("name", SubSeq(bytes, 3, bytes[2] + 2),
                        from_be_bytes(bytes[bytes[2] + 4], bytes[bytes[2] + 3]))]
  ELSE [res |-> "protocol", addr |-> NoAddr]

\* AddressInner::from_assemble_bytes, on bytes: Ok(address), NotReady or Protocol.
AddressInner_from_assemble_bytes(bytes) ==
  LET ip(kind, n) ==
        IF Len(bytes) < n + 3 THEN [res |-> "notready", addr |-> NoAddr]
        ELSE [res |-> "ok",
              addr |-> Addr(kind, SubSeq(bytes, 2, n + 1),
                            from_be_bytes(bytes[n + 2], bytes[n + 3]))]
  IN
  IF bytes = <<>> THEN [res |-> "notready", addr |-> NoAddr]
  ELSE IF bytes[1] = 1 THEN ip("v4", 4)
  ELSE IF bytes[1] = 4 THEN ip("v6", 16)
  ELSE IF bytes[1] = 3 THEN
    IF Len(bytes) < 2 \/ Len(bytes) < bytes[2] + 4
      THEN [res |-> "notready", addr |-> NoAddr]
    ELSE IF ~Utf8Valid(SubSeq(bytes, 3, bytes[2] + 2))
      THEN [res |-> "protocol", addr |-> NoAddr]
    ELSE [res |-> "ok",
          addr |-> Addr("name", SubSeq(bytes, 3, bytes[2] + 2),
                        from_be_bytes(bytes[bytes[2] + 3], bytes[bytes[2] + 4]))]
  ELSE [res |-> "protocol", addr |-> NoAddr]

\* Address::from_bytes: every AssembleError becomes the ProtocolError.
Address_from_bytes(bytes) ==
  LET r == AddressInner_from_assemble_bytes(bytes) IN
  IF r.res = "ok" THEN r ELSE [res |-> "protocol", addr |-> NoAddr]

\* A request, and the value of a failed parse.
Req(pwd, cmd, addr, payload) == [pwd |-> pwd, cmd |-> cmd, addr |-> addr, payload |-> payload]
NoReq == Req(<<>>, "", NoAddr, <<>>)

\* RequestRef::from_bytes: Ok(request) or Err(ProtocolError).
RequestRef_from_bytes(bytes) ==
  LET bad == [res |-> "protocol", req |-> NoReq] IN
  IF Len(bytes) < HeadLen THEN bad
  ELSE LET pwd == from_hex_unchecked(bytes)
           cmd == from_byte(bytes[HeadLen])
       IN
       IF pwd = NoneV THEN bad
       ELSE IF SubSeq(bytes, HexLen + 1, HexLen + 2) # CRLF THEN bad
       ELSE IF cmd = NoneV THEN bad
       ELSE LET a == Address_from_bytes(SubSeq(bytes, HeadLen + 1, Len(bytes)))
                offset == HeadLen + AddressInner_size(a.addr) + 2
            IN IF a.res # "ok" THEN bad
               ELSE IF Get(bytes, offset - 1, offset) # Some(CRLF) THEN bad
               ELSE [res |-> "ok",
                     req |-> Req(pwd[1], cmd[1], a.addr,
                                 SubSeq(bytes, offset + 1, Len(bytes)))]

\* RequestRef::as_bytes
RequestRef_as_bytes(r, ub) ==
  to_hex(r.pwd, ub) \o CRLF \o <<CommandByte(r.cmd)>> \o AddressInner_as_bytes(r.addr)
    \o CRLF \o r.payload

\* A framed UDP packet, and the value of a failed parse.
Pkt(addr, payload) == [addr |-> addr, payload |-> payload]
NoPkt == Pkt(NoAddr, <<>>)

\* Mutant of UdpPacketInner_as_bytes: the length is written little-endian.
UdpPacketInner_as_bytes_LittleEndian(p) ==
  AddressInner_as_bytes(p.addr)
    \o <<(Len(p.payload) % 65536) % 256, (Len(p.payload) % 65536) \div 256>>
    \o CRLF \o p.payload

\* UdpPacketInner::as_bytes
UdpPacketInner_as_bytes(p) ==
  AddressInner_as_bytes(p.addr) \o to_be_bytes(Len(p.payload) % 65536) \o CRLF \o p.payload

\* UdpPacketInner::from_bytes: Ok(packet), NotReady or Protocol.
UdpPacketInner_from_bytes(bytes) ==
  LET a == AddressInner_from_assemble_bytes(bytes)
      addr_len == AddressInner_size(a.addr)
  IN
  IF a.res # "ok" THEN [res |-> a.res, pkt |-> NoPkt]
  ELSE IF Get(bytes, addr_len + 1, addr_len + 2) = NoneV
    THEN [res |-> "notready", pkt |-> NoPkt]
  ELSE LET len == from_be_bytes(bytes[addr_len + 1], bytes[addr_len + 2])
           end == addr_len + 2 + 2 + len
       IN IF Get(bytes, addr_len + 3, end) = NoneV THEN [res |-> "notready", pkt |-> NoPkt]
          ELSE IF SubSeq(bytes, addr_len + 3, addr_len + 4) # CRLF
            THEN [res |-> "protocol", pkt |-> NoPkt]
          ELSE [res |-> "ok", pkt |-> Pkt(a.addr, SubSeq(bytes, addr_len + 5, end))]

\* The values the codecs are applied to.
Fill(n, b) == [i \in 1..n |-> b]
SomeAddrs ==
  {Addr("v4", <<127, 0, 0, 1>>, 80), Addr("v4", <<10, 0, 255, 3>>, 65535),
   Addr("v6", Fill(15, 0) \o <<1>>, 443), Addr("name", <<97>>, 256),
   Addr("name", <<195, 169, 46, 97>>, 53), Addr("name", Fill(255, 97), 8080)}
SomePwds ==
  {Fill(RawLen, 0), Fill(RawLen, 15), Fill(RawLen - 1, 175) \o <<9>>,
   <<171>> \o Fill(RawLen - 1, 255)}
SomePayloads == {<<>>, <<13, 10>>, Fill(300, 7)}
SomeReqs ==
  {Req(p, c, a, d) : p \in SomePwds, c \in {"Connect", "UdpAssociate"},
                     a \in {a \in SomeAddrs : a.port > 255},
                     d \in {<<>>, <<71, 69, 84>>}}
SomePkts == {Pkt(a, d) : a \in SomeAddrs, d \in SomePayloads}

\* The bytes that replace a byte on the wire.
WireBytes == {0, 65, 103, 255}

\* The result of a decoder that has not run.
NoOut == [res |-> "none"]

\* A value is encoded.
CodecEncode(ub) ==
  /\ codec.pc = "value"
  /\ codec' = [codec EXCEPT
       !.pc = "encoded",
       !.bytes = CASE codec.kind = "request" -> RequestRef_as_bytes(codec.val, ub)
                   [] codec.kind = "address" -> AddressInner_as_bytes(codec.val)
                   [] OTHER -> UdpPacketInner_as_bytes(codec.val)]
  /\ UNCHANGED <<users, running, cpc, data, cidx, ltx, conns, admitted, sess, meter, lim,
                 udp, logged, rw>>

\* The peer sends other bytes: byte i of the encoding is b. Of the fingerprint
\* of a request, the first and the last character are tried.
CodecCorrupt(i, b) ==
  /\ codec.pc = "encoded"
  /\ i <= Len(codec.bytes)
  /\ codec.kind = "request" => i \in {1, HexLen} \/ i > HexLen
  /\ codec.bytes[i] # b
  /\ codec' = [codec EXCEPT !.pc = "wire", !.bytes = [@ EXCEPT ![i] = b], !.intact = FALSE]
  /\ UNCHANGED <<users, running, cpc, data, cidx, ltx, conns, admitted, sess, meter, lim,
                 udp, logged, rw>>

\* Only the first bytes have arrived: the last n are missing.
CodecCut(n) ==
  /\ codec.pc \in {"encoded", "wire"}
  /\ ~codec.cut
  /\ n <= Len(codec.bytes)
  /\ codec' = [codec EXCEPT !.pc = "wire", !.cut = TRUE, !.intact = FALSE,
                            !.bytes = SubSeq(@, 1, Len(@) - n)]
  /\ UNCHANGED <<users, running, cpc, data, cidx, ltx, conns, admitted, sess, meter, lim,
                 udp, logged, rw>>

\* The bytes are decoded.
CodecDecode ==
  /\ codec.pc \in {"encoded", "wire"}
  /\ codec' = [codec EXCEPT
       !.pc = "decoded",
       !.out = CASE codec.kind = "request" ->
                      LET r == RequestRef_from_bytes(codec.bytes) IN
                      [res |-> r.res, val |-> r.req]
                 [] codec.kind = "address" ->
                      LET r == AddressInner_from_assemble_bytes(codec.bytes) IN
                      [res |-> r.res, val |-> r.addr]
                 [] OTHER ->
                      LET r == UdpPacketInner_from_bytes(codec.bytes) IN
                      [res |-> r.res, val |-> r.pkt]]
  /\ UNCHANGED <<users, running, cpc, data, cidx, ltx, conns, admitted, sess, meter, lim,
                 udp, logged, rw>>

InitCodec ==
  /\ Init!1 /\ Init!2 /\ Init!3 /\ Init!4 /\ Init!5 /\ Init!6 /\ Init!7 /\ Init!8
  /\ sess = NoSess
  /\ meter = NoMeter
  /\ lim = NoLim
  /\ udp = NoUdp
  /\ logged = {}
  /\ rw = NoRw
  /\ \E kind \in {"request", "address", "packet"} :
       \E val \in (CASE kind = "request" -> SomeReqs
                     [] kind = "address" -> SomeAddrs
                     [] OTHER -> SomePkts) :
         codec = [pc |-> "value", kind |-> kind, val |-> val, bytes |-> <<>>,
                  intact |-> TRUE, cut |-> FALSE, out |-> NoOut]

NextCodec ==
  \/ \E ub \in UbChoices : CodecEncode(ub)
  \/ \E i \in 1..MaxPos, b \in WireBytes : CodecCorrupt(i, b)
  \/ \E n \in 1..MaxCut : CodecCut(n)
  \/ CodecDecode

SpecCodec == InitCodec /\ [][NextCodec]_vars

\* ------------------------------------------------------------------ claims

\* The keys of the store and the fingerprints of the running set.
StoreKeys == {p \in FPs : users[p] # NoCtx}
RunningFps == {running[i].pwd : i \in {j \in Ids : running[j] # NoUser}}

\* C1: after every successful reconcile the set of fingerprint keys of the store
\* is exactly the set of fingerprints of the fetched records (running is the
\* fetched set, and only fetch_users changes either).
C1_KeysAreFetchedFingerprints == StoreKeys = RunningFps

\* C2: when a user keeps its id and the fetched record carries another
\* fingerprint, the context stored under the old key is under the new key after
\* the reconcile, with its tx, rx and ips carried over.
C2_RenameMovesContext ==
  [][cpc = "fetch" =>
       \A i \in Ids :
         (/\ running[i] # NoUser /\ running'[i] # NoUser
          /\ running[i].pwd # running'[i].pwd
          /\ users[running[i].pwd].id = i)
         => /\ users'[running'[i].pwd].id = i
            /\ users'[running'[i].pwd].tx = users[running[i].pwd].tx
            /\ users'[running'[i].pwd].rx = users[running[i].pwd].rx
            /\ users'[running'[i].pwd].ips[1] = users[running[i].pwd].ips[1]]_vars

\* C3: after a reconcile in which a running user id is absent from the fetched
\* set, the store holds no UserContext of that id.
C3_RemovedUserHasNoContext ==
  [][cpc = "fetch" =>
       \A i \in Ids :
         (running[i] # NoUser /\ running'[i] = NoUser)
         => \A p \in FPs : users'[p].id # i]_vars

\* C4: outside a reconcile a counter goes down only by assume_update, which runs
\* only after ret == 1 and subtracts exactly the collected value of the entry from
\* the current value (bytes added since collect_update stay); a failed or refused
\* POST leaves the store as it was.
C4_FlushSubtractsReported ==
  [][/\ (cpc = "assume_tx" /\ cpc' # cpc)
          => users' = [users EXCEPT ![data[cidx].pwd].tx = @ - data[cidx].tx]
     /\ (cpc = "assume_rx" /\ cpc' # cpc)
          => users' = [users EXCEPT ![data[cidx].pwd].rx = @ - data[cidx].rx]
     /\ (cpc = "post" /\ cpc' = "ip") => users' = users
     /\ (cpc # "fetch" /\ ~(cpc \in {"assume_tx", "assume_rx"} /\ cpc' # cpc))
          => \A p \in FPs : users'[p].tx >= users[p].tx /\ users'[p].rx >= users[p].rx]_vars

\* C4 witness: assume_update has subtracted a reported tx and bytes that a
\* session added after collect_update are still in the counter.
C4_Witness ==
  /\ cpc = "assume_rx"
  /\ data[cidx].tx > 0
  /\ users[data[cidx].pwd].tx > 0

\* C5: every value assume_update is about to subtract is at most the current
\* value of its counter, and no counter holds a wrapped value.
C5_NoUnderflow ==
  /\ cpc = "assume_tx" =>
       \A j \in cidx..Len(data) :
         /\ users[data[j].pwd] # NoCtx
         /\ data[j].tx <= users[data[j].pwd].tx
         /\ data[j].rx <= users[data[j].pwd].rx
  /\ cpc = "assume_rx" =>
       /\ users[data[cidx].pwd] # NoCtx
       /\ data[cidx].rx <= users[data[cidx].pwd].rx
  /\ \A p \in FPs : users[p].tx <= MaxBytes /\ users[p].rx <= MaxBytes

\* C5 witness: a subtraction that takes a counter to exactly zero.
C5_Witness ==
  /\ cpc = "assume_tx"
  /\ data[cidx].tx = MaxBytes
  /\ users[data[cidx].pwd].tx = MaxBytes
  /\ data[cidx].rx < data[cidx].tx

\* A step in which connection c ran verify.
Verified(c) == conns[c].pc = "idle" /\ conns'[c].pc # "idle"

\* C6: a verify that succeeds under cap n leaves |ips| <= n; under cap 1 with
\* ips = {A}, a verify from another address returns IpLimit and leaves ips = {A}.
C6_CapBoundsIps ==
  [][\A c \in Conns :
       Verified(c) =>
         LET p == conns'[c].pwd
             ip == conns'[c].src
         IN /\ (conns'[c].pc = "setup" /\ users'[p].ips[2] # NoneV)
                 => Cardinality(users'[p].ips[1]) <= users'[p].ips[2][1]
            /\ (/\ users[p] # NoCtx
                /\ users[p].ips[2] = Some(1)
                /\ \E a \in IPs \ {ip} : users[p].ips[1] = {a})
                 => /\ conns'[c].pc = "closed"
                    /\ users'[p].ips = users[p].ips]_vars

\* C6 witness: a verify was refused under cap 1 with one other address in the set.
C6_Witness ==
  \E c \in Conns :
    /\ conns[c].pc = "closed"
    /\ users[conns[c].pwd].ips[2] = Some(1)
    /\ \E a \in IPs \ {conns[c].src} : users[conns[c].pwd].ips[1] = {a}

\* C7: a verify that is rejected (IpLimit or Password) leaves every ips set as
\* it was before the call.
C7_RejectLeavesIps ==
  [][\A c \in Conns :
       (Verified(c) /\ conns'[c].pc \in {"closed", "fallback"})
         => \A p \in FPs : users'[p].ips[1] = users[p].ips[1]]_vars

\* C8 as stated: each address in a user's ips set is the source address of a
\* session of that user that is being set up or is established.
C8_IpsAreLiveSessions ==
  \A p \in FPs : \A a \in users[p].ips[1] :
    \E c \in Conns :
      /\ conns[c].pc \in {"setup", "relay"}
      /\ conns[c].src = a
      /\ conns[c].user = p

\* C8 as amended: each address in a user's ips set is the source address of a
\* connection that passed verify for that user since collect_ip last drained the
\* set (or since the context was created).
C8_IpsWereAdmitted ==
  \A p \in FPs : users[p].ips[1] \subseteq admitted[p]

\* C8 witness: an address is in the set and no session from it is alive.
C8_Witness ==
  \E p \in FPs : \E a \in users[p].ips[1] :
    /\ a \in admitted[p]
    /\ \A c \in Conns : conns[c].pc = "idle"

\* C9: when the first parse fails or the fingerprint is unknown, no upstream
\* socket is opened and what the fallback endpoint has received once the tunnel
\* to it runs is the candidate bytes, complete and unmodified (after the PROXY
\* header, when the policy writes one); when verify returns IpLimit the
\* connection ends with neither a fallback nor an upstream connection.
C9_FirstParseDecidesRoute ==
  /\ sess.res \in {"Parse", "Password"} =>
       /\ sess.up = "none"
       /\ sess.pc = "fb_copy" =>
            sess.fbout = FallbackHeader(DowngradePolicy(sess)) \o sess.data
  /\ sess.res = "IpLimit" =>
       /\ sess.pc = "done"
       /\ sess.up = "none"
       /\ sess.fb = "none"

\* C10: with the request in early data, no byte is written to the client over
\* the TLS stream before the handshake has completed.
C10_NoClientByteBeforeHandshake ==
  (sess.early /\ sess.hs # "done") => sess.toclient = 0

\* C10 witness: the upstream socket of an early-data session is open while the
\* handshake is still pending.
C10_Witness ==
  /\ sess.early
  /\ sess.res = "Ok"
  /\ sess.hs = "pending"
  /\ sess.up = "open"
  /\ sess.toclient = 0

\* C11: during the TCP relay tx, session-local and shared, equals the number of
\* bytes taken from the client, and rx the number of bytes written to the
\* client, whatever the ReadBuf handed to poll_read held.
C11_CountersMatchBytes ==
  meter.cmd = "Connect" =>
    /\ meter.tx = meter.taken
    /\ meter.itx = meter.taken
    /\ meter.rx = meter.sent
    /\ meter.irx = meter.sent

\* What a step leaves alone when it moves no byte and counts none.
NoIoNoCount ==
  /\ meter'.tx = meter.tx /\ meter'.rx = meter.rx
  /\ meter'.itx = meter.itx /\ meter'.irx = meter.irx
  /\ meter'.taken = meter.taken /\ meter'.sent = meter.sent
  /\ udp' = udp

\* C12: while the pause a non-zero limiter delay has set is pending (the
\* deadline has not passed), every read or write on the metered stream and
\* every Recv step of the UDP relay returns Pending, moves no byte and changes
\* no counter.
C12_PausedIoIsPending ==
  [][(meter.now < meter.deadline /\ meter'.op \in {"read", "write", "recv"})
       => (meter'.ret = "pending" /\ NoIoNoCount)]_vars

\* C12 witness: a write on the metered stream of a TCP session has returned
\* Pending, bytes having been counted and the pause deadline lying ahead.
C12_Witness ==
  /\ meter.cmd = "Connect"
  /\ meter.op = "write" /\ meter.ret = "pending"
  /\ meter.tx > 0
  /\ meter.now < meter.deadline

RECURSIVE SumSeq(_)
SumSeq(q) == IF q = <<>> THEN 0 ELSE Head(q) + SumSeq(Tail(q))

\* C13: a call of consume made while the limiter is unlimited returns
\* Duration::ZERO, does not take the bucket mutex and leaves volumn and
\* updated_at as they were, whatever the bucket holds.
C13_UnlimitedConsumeIsFree ==
  [][(lim.is_unlimited /\ lim'.calls = lim.calls + 1)
       => /\ lim'.ret = ZeroDelay
          /\ lim'.locks = lim.locks
          /\ lim'.bucket = lim.bucket]_vars

\* C13 witness: consume was called with a positive size on a limiter made
\* unlimited while its bucket was in deficit.
C13_Witness ==
  /\ lim.is_unlimited
  /\ lim.op = "consume" /\ lim.arg > 0
  /\ ~lim.bucket.volumn.inf /\ lim.bucket.volumn.v < 0
  /\ lim.ret = ZeroDelay

\* C14: the volume of the bucket of a limiter with a finite rate is at most
\* that rate times INTERVAL.
C14_VolumeWithinCap ==
  (~lim.is_unlimited /\ lim.pending = NoneV) =>
    /\ ~lim.bucket.volumn.inf
    /\ lim.bucket.volumn.v <= lim.bucket.speed_limit * INTERVAL

Yielded == udp.out \o (IF udp.pb.packet = NoneV THEN <<>> ELSE <<udp.pb.packet[1]>>)

\* C16: for a well-formed stream, however it is split, the reassembler yields
\* the stream's packets, each once and in order, with their own address and
\* payload; the bytes of the packets taken, the buffer and the bytes still to
\* come make up the stream (no buffered byte is lost, nothing is yielded from a
\* prefix), and once all bytes are in and drained every packet has been yielded.
C16_ReassemblerYieldsPackets ==
  (udp.stream \in WfStreams(MaxPackets) /\ udp.status # "new") =>
    /\ udp.status # "protocol"
    /\ Yielded = SubSeq(Packets(udp.stream), 1, Len(Yielded))
    /\ Flatten(udp.out) \o udp.pb.buf \o udp.tunnel = udp.stream
    /\ (udp.tunnel = <<>> /\ udp.status \in {"Recv", "Shutdown", "done", "select", "pause"})
         => udp.out = Packets(udp.stream)

\* C16 witness: a stream of two packets that arrived after the request, in
\* reads shorter than a packet, has been reassembled to the end.
C16_Witness ==
  /\ udp.stream \in WfStreams(MaxPackets)
  /\ udp.payload = <<>>
  /\ udp.status = "Recv"
  /\ udp.tunnel = <<>>
  /\ Len(udp.out) = 2
  /\ udp.out = Packets(udp.stream)

\* The step of the loop a position of Client::run belongs to.
LoopStep(pc) ==
  CASE pc = "fetch" -> "fetch"
    [] pc = "sleep" -> "sleep"
    [] pc \in {"collect_tx", "collect_rx", "post", "assume_tx", "assume_rx"} -> "traffic"
    [] pc = "ip" -> "ip"
    [] OTHER -> "none"

\* C20: Client::run goes from the fetch to the sleep, from the sleep to the
\* traffic flush (which is over at once when the store is empty), from there
\* to the IP flush and from there to the next fetch, whether the step failed
\* or not, and it comes to each of the steps again and again.
C20_LoopInOrderForever ==
  /\ [][LoopStep(cpc') # LoopStep(cpc) =>
          \/ LoopStep(cpc) = "fetch" /\ cpc' = "sleep"
          \/ LoopStep(cpc) = "sleep" /\ cpc' = "collect_tx"
          \/ LoopStep(cpc) = "sleep" /\ cpc' = "ip" /\ \A p \in FPs : users[p] = NoCtx
          \/ LoopStep(cpc) = "traffic" /\ cpc' = "ip"
          \/ LoopStep(cpc) = "ip" /\ cpc' = "fetch"]_vars
  /\ []<>(cpc = "fetch")
  /\ []<>(cpc = "sleep")
  /\ []<>(cpc = "ip")

\* C20 witness: an iteration in which the fetch, the traffic flush and the IP
\* flush all failed has run to its end and the next one is about to start.
C20_Witness ==
  /\ cpc = "fetch"
  /\ logged = {"fetch", "traffic", "ip"}

\* C21: whenever verify holds the read guard, the store it looks at is the
\* store as it was before the reconcile last started or as that reconcile
\* leaves it; and what a reconcile leaves when its write guard drops is what
\* its two loops make of the store it found.
C21_ReadersSeeWholeReconciles ==
  /\ rw.reader # "none" => StoreView(users) \in {rw.before, rw.after}
  /\ rw.pc = "idle" => StoreView(users) = rw.after

\* C21 witness: verify has run under the read guard on a store that a reconcile
\* with changes at two fingerprints has left.
C21_Witness ==
  /\ rw.reader = "verified"
  /\ rw.pc = "idle"
  /\ \A p \in FPs : rw.before[p] # rw.after[p]
  /\ conns[rw.c].pc = "setup"

\* The bytes at the head of the reassembler already show a malformed packet:
\* an unknown address type, a name that is not UTF-8, or a separator that is
\* not CRLF.
MalformedHead(bytes) ==
  \/ from_assemble_bytes(bytes).res = "protocol"
  \/ /\ from_assemble_bytes(bytes).res = "ok"
     /\ Len(bytes) >= 4
     /\ bytes[4] # "crlf"

\* C17 as stated: in the relay of server/session.rs, whenever the bytes received
\* make the packet at the head of the reassembler malformed, the session has
\* not gone on: it is never back in a relay state with such a head.
C17_MalformedBytesTerminate ==
  (/\ udp.variant = "poll"
   /\ udp.status \in {"Recv", "UdpSend", "StreamSend", "Shutdown", "done"}
   /\ udp.pb.packet = NoneV)
  => ~MalformedHead(udp.pb.buf)

\* C17 (amended): in the relay of server/session.rs a packet the parser finds
\* malformed (unknown address type, a name that is not UTF-8, or, once the
\* payload of the stated length is buffered, a separator that is not CRLF) does
\* not stay at the head of the reassembler, run returns the ProtocolError, and
\* from then on no datagram is sent and no frame is written.
C17_MalformedTerminates ==
  /\ [](udp.variant = "poll"
          /\ udp.status \in {"Recv", "UdpSend", "StreamSend", "Shutdown", "done"}
          /\ udp.pb.packet = NoneV
        => UdpFromBytes(udp.pb.buf).res # "protocol")
  /\ [][(udp.variant = "poll" /\ udp.status = "protocol")
          => /\ udp'.status = "protocol"
             /\ udp'.sentdg = udp.sentdg
             /\ udp'.frames = udp.frames
             /\ meter'.sent = meter.sent]_vars

\* C17 witness: the relay has ended with the ProtocolError after it had sent a
\* datagram, with bytes of the client still to come.
C17_Witness ==
  /\ udp.variant = "poll"
  /\ udp.status = "protocol"
  /\ Len(udp.sentdg) = 1
  /\ udp.tunnel # <<>>

\* C18: every datagram is sent to the address its own packet carried.
C18_SentToOwnAddress ==
  \A i \in 1..Len(udp.sentdg) : udp.sentdg[i].to = udp.sentdg[i].own

\* The payload sizes of the packets of ps that are within the cap.
RECURSIVE CappedSizes(_)
CappedSizes(ps) ==
  IF ps = <<>> THEN <<>>
  ELSE (IF ByteLen(Head(ps).payload) <= PAYLOAD_LEN
          THEN <<ByteLen(Head(ps).payload)>> ELSE <<>>) \o CappedSizes(Tail(ps))

\* C19: the packets taken from the reassembler whose payload is at most
\* PAYLOAD_LEN bytes (8192 included) have each caused one datagram, sent or
\* handed to the sender, and tx is the sum of their sizes; the others caused
\* no datagram and no change of tx.
C19_CappedSendsCounted ==
  udp.status \notin {"new", "none"} =>
    /\ Len(udp.sentdg) + Len(udp.queue) = Len(CappedSizes(udp.out))
    /\ meter.tx = SumSeq(CappedSizes(udp.out))

\* The bytes have been decoded as they were encoded, none replaced or missing.
DecodedIntact(kind) == codec.pc = "decoded" /\ codec.kind = kind /\ codec.intact

\* C22: the bytes of a request parse back to the request, and the fingerprint
\* is written as 56 characters of [0-9a-f].
C22_RequestRoundTrip ==
  DecodedIntact("request") =>
    /\ codec.out.res = "ok"
    /\ codec.out.val = codec.val
    /\ \A i \in 1..HexLen : codec.bytes[i] \in HexChars

AddrDefect(a) ==
  \/ a = <<>>
  \/ a[1] \notin {1, 3, 4}
  \/ a[1] = 1 /\ Len(a) < 7
  \/ a[1] = 4 /\ Len(a) < 19
  \/ a[1] = 3 /\ (Len(a) < 2 \/ Len(a) < a[2] + 4 \/ ~Utf8Valid(SubSeq(a, 3, a[2] + 2)))

\* The number of bytes of the address that a begins with.
WireAddrLen(a) == IF a[1] = 1 THEN 7 ELSE IF a[1] = 4 THEN 19 ELSE a[2] + 4

\* One of the defects of a request: too short, a character outside [0-9a-f]
\* in the fingerprint, no CRLF after it, an unknown command, a bad address,
\* no CRLF after the address.
ReqDefect(b) ==
  \/ Len(b) < HeadLen
  \/ \E i \in 1..HexLen : b[i] \notin HexChars
  \/ <<b[HexLen + 1], b[HexLen + 2]>> # CRLF
  \/ b[HeadLen] \notin {1, 3}
  \/ AddrDefect(SubSeq(b, HeadLen + 1, Len(b)))
  \/ LET n == HeadLen + WireAddrLen(SubSeq(b, HeadLen + 1, Len(b))) IN
       Len(b) < n + 2 \/ <<b[n + 1], b[n + 2]>> # CRLF

C26_PacketFieldsInWireOrder ==
  codec.pc = "decoded" /\ codec.kind = "packet" =>
    LET a == AddressInner_from_assemble_bytes(codec.bytes)
        n == AddressInner_size(a.addr)
        b == codec.bytes
    IN
    /\ a.res = "ok" /\ Len(b) >= n + 4 /\ <<b[n + 3], b[n + 4]>> # CRLF
         => codec.out.res = "protocol"
    /\ codec.out.res = "notready" =>
         \/ a.res = "notready"
         \/ Len(b) < n + 4
         \/ <<b[n + 3], b[n + 4]>> = CRLF /\ Len(b) < n + 4 + from_be_bytes(b[n + 1], b[n + 2])

\* C27: the status of the relay of server/session.rs changes only from Recv to
\* UdpSend (the tunnel read returned bytes), to Shutdown (it returned none) or
\* to StreamSend (a datagram arrived), from UdpSend to Recv when the
\* reassembler holds no complete packet, and from StreamSend to Recv; Shutdown
\* only ends the relay; the first status is chosen once, an error ends the
\* relay, and a step that returns Pending leaves the status alone.
C27_StatusTransitions ==
  [][udp.variant = "poll" =>
       /\ udp'.status # udp.status =>
            \/ udp.status = "new" /\ udp'.status \in {"UdpSend", "Recv", "protocol"}
            \/ /\ udp.status = "Recv" /\ udp'.status = "UdpSend"
               /\ Len(udp'.tunnel) < Len(udp.tunnel)
            \/ udp.status = "Recv" /\ udp'.status = "Shutdown" /\ udp.tunnel = <<>>
            \/ udp.status = "Recv" /\ udp'.status = "StreamSend" /\ udp'.up < udp.up
            \/ /\ udp.status = "UdpSend" /\ udp'.status = "Recv"
               /\ udp.pb.packet = NoneV
               /\ UdpFromBytes(udp.pb.buf).res # "ok"
            \/ udp.status = "StreamSend" /\ udp'.status = "Recv"
            \/ udp.status = "Shutdown" /\ udp'.status \in {"done", "error"}
            \/ /\ udp.status \in {"Recv", "UdpSend", "StreamSend"}
               /\ udp'.status \in {"protocol", "error"}
       /\ meter'.ret = "pending" => udp'.status = udp.status]_vars

\* C27 witness: the relay is back in Recv after it has sent a datagram and
\* written a frame.
C27_Witness ==
  /\ udp.variant = "poll"
  /\ udp.status = "Recv"
  /\ Len(udp.sentdg) >= 1
  /\ udp.frames >= 1

C29_FramesWrittenInFull ==
  udp.variant = "poll" =>
    /\ meter.sent = udp.frames * FrameSize(udp.dest, 1)
    /\ meter.rx = meter.sent

\* C30: when the copy of a TCP session starts, the upstream socket has got
\* every byte of the request payload and tx is the number of bytes it got.
C30_PayloadDeliveredBeforeCopy ==
  [][meter.cmd = "Connect" /\ meter.pc # "relay" /\ meter'.pc = "relay" =>
       /\ meter'.up = meter'.payload
       /\ meter'.tx = meter'.up]_vars

\* C31: a consume to which the limiter returns the delay d leaves the deadline
\* of the pause alone when d is zero, moves it to the old deadline plus d when
\* the old deadline lies ahead, and to now plus d otherwise.
C31_DeadlineRule ==
  [][meter'.tx # meter.tx =>
       meter'.deadline =
         IF lim'.ret = 0 THEN meter.deadline
         ELSE IF meter.now < meter.deadline THEN meter.deadline + lim'.ret
         ELSE meter.now + lim'.ret]_vars

\* A fetch has succeeded in this step: fetch_users ran both loops.
Fetched == cpc = "fetch" /\ cpc' = "sleep" /\ logged' = {}

C34_RelaysAgree ==
  udp.status = "done" =>
    /\ Len(udp.sentdg) + Len(udp.queue) = Len(CappedSizes(Packets(udp.stream)))
    /\ meter.tx = SumSeq(CappedSizes(Packets(udp.stream)))
    /\ meter.sent = udp.frames * FrameSize(udp.dest, 1)
    /\ meter.rx = meter.sent

\* C35: a datagram that waits on the socket of the relay is framed and written
\* to the tunnel, unless the relay ends with an error before, also while the
\* client goes on sending.
C35_DatagramEventuallyFramed ==
  (udp.status \in {"Recv", "UdpSend"} /\ udp.up > 0)
    ~> (udp.frames > 0 \/ udp.status \in {"protocol", "error"})

\* The source addresses of the sessions that passed verify with the fingerprint
\* p and relay now.
LiveSources(p) == {conns[c].src : c \in {d \in Conns : conns[d].pc = "relay" /\ conns[d].user = p}}

\* C36: a user with the IP cap n has relaying sessions from at most n distinct
\* source addresses.
C36_LiveSourcesWithinCap ==
  \A p \in FPs :
    users[p] # NoCtx /\ users[p].ips[2] # NoneV =>
      Cardinality(LiveSources(p)) <= users[p].ips[2][1]

\* C37: the context stored under the fingerprint of a fetched user carries the
\* id of that user.
C37_ContextIdIsOwnerId ==
  \A id \in Ids :
    running[id] # NoUser =>
      /\ users[running[id].pwd] # NoCtx
      /\ users[running[id].pwd].id = id

\* Every thread in the way of t can go on.
HoldersRun(t) == \A h \in Holders(rw, Wanted(rw, t)) : Runnable(rw, h)

\* C38: no thread waits in a circle. A thread holds at most one of the two
\* per-user mutexes, a task that is suspended or about to take the store lock
\* holds no lock at all, and a thread that waits for a lock waits for threads that
\* can go on, or that wait for threads that can go on.
C38_NoDeadlock ==
  /\ \A t \in Threads : Cardinality(Mutexes(rw, t)) <= 1
  /\ \A t \in Threads :
       rw.pc[t] \in SuspendPcs \/ Wanted(rw, t)[1] \in {"read", "write"} =>
         ~HoldsStore(rw, t) /\ Mutexes(rw, t) = {}
  /\ \A t \in Threads :
       \/ Runnable(rw, t)
       \/ \A h \in Holders(rw, Wanted(rw, t)) : Runnable(rw, h) \/ HoldersRun(h)

\* C38, its case: under the write lock, update_ctx waits for the bucket that a
\* session holds in consume, and the other session waits for the store.
C38_Witness ==
  /\ rw.pc["ctl"] = "update_bucket_wait"
  /\ ~Runnable(rw, "ctl")
  /\ \E t \in SessionThreads : rw.pc[t] = "verify_read_wait"

\* C39: the relay of server/session.rs appends the bytes of a tunnel read to the
\* reassembler only while the reassembler holds no parsed packet.
C39_WriteOnlyWithoutPacket ==
  [][udp.variant = "poll" /\ udp'.tunnel # udp.tunnel => udp.pb.packet = NoneV]_vars

\* C39, its case: a packet was taken out, the start of the next is buffered, and
\* the relay is back in Recv with more bytes of the client to come.
C39_Witness ==
  /\ udp.variant = "poll"
  /\ udp.status = "Recv"
  /\ udp.out # <<>>
  /\ udp.pb.buf # <<>>
  /\ udp.pb.packet = NoneV
  /\ udp.tunnel # <<>>

====
